---- MODULE Spec2Model ----
(***************************************************************************)
(* TMC2660 stepper driver subsystem of RepRapFirmware                      *)
(* (src/src/Movement/StepperDrivers/TMC2660.cpp): the per-driver register  *)
(* shadow, the SPI polling ring run by the end-of-receive interrupt, and   *)
(* the SmartDrivers facade, as a state machine.                            *)
(*                                                                         *)
(* Execution contexts: the main thread (facade calls, Spin), the SPI ISR   *)
(* (TMC2660_SPI_Handler) and the tick ISR (TurnDriversOff).  The main      *)
(* thread advances one shared-memory access at a time; the SPI ISR runs    *)
(* between any two such accesses and is never interrupted by the main      *)
(* thread; TurnDriversOff may run between any two steps of either.         *)
(***************************************************************************)
EXTENDS Integers, Sequences, FiniteSets, TLC

----------------------------------------------------------------------------
(* Bounds of the model *)

\* number of drivers handed to SmartDrivers::Init in the ring specification
NumRingDrivers == 2

\* number of drivers in the status specification
NumStatusDrivers == 1

----------------------------------------------------------------------------
(* 32-bit unsigned arithmetic as the C++ operators compute it *)

RECURSIVE BitAnd(_, _)
BitAnd(a, b) ==
    IF a = 0 \/ b = 0 THEN 0
    ELSE (a % 2) * (b % 2) + 2 * BitAnd(a \div 2, b \div 2)

RECURSIVE BitOr(_, _)
BitOr(a, b) ==
    IF a = 0 THEN b
    ELSE IF b = 0 THEN a
    ELSE (IF a % 2 = 1 \/ b % 2 = 1 THEN 1 ELSE 0) + 2 * BitOr(a \div 2, b \div 2)

\* a & ~m
BitClear(a, m) == a - BitAnd(a, m)

\* x << n; no value shifted here reaches bit 31, so nothing is truncated
Shl(x, n) == x * (2 ^ n)

\* (uint32_t)x & ((1 << n) - 1), for x of either sign (two's complement)
LowBits(x, n) == x % (2 ^ n)

\* x >> n
Shr(x, n) == x \div (2 ^ n)

\* the four bytes of a 32-bit word, lowest address (least significant) first
Bytes(x) == << x % 256, (x \div 256) % 256, (x \div 65536) % 256, (x \div 16777216) % 256 >>

\* cpu_to_be32(x) on the little-endian target, for x below 2^24 * 128
\* (the top byte of x becomes the low byte of the result)
cpu_to_be32(x) ==
    LET b == Bytes(x) IN b[4] + b[3] * 256 + b[2] * 65536 + b[1] * 16777216

\* be32_to_cpu(x) >> 12: the byte at the lowest address becomes the most
\* significant, and the low 12 bits of the swapped word are dropped
be32_to_cpu_shr12(x) ==
    LET b == Bytes(x) IN b[1] * 4096 + b[2] * 16 + (b[3] \div 16)

\* the status words are 20 bits wide (a 32-bit word shifted right by 12):
\* a 32-bit mask acts on them through its low 20 bits, and ~m is taken there
StatusBits == 1048575

----------------------------------------------------------------------------
(* Register addresses and fields *)

TMC_REG_DRVCTRL == 0
TMC_REG_CHOPCONF == 524288
TMC_REG_SMARTEN == 655360
TMC_REG_SGCSCONF == 786432
TMC_REG_DRVCONF == 917504
TMC_DATA_MASK == 131071

TMC_DRVCONF_RDSEL_1 == 16
TMC_DRVCONF_VSENSE == 64
TMC_DRVCONF_TS2G_0P8 == 768

TMC_CHOPCONF_TOFF_MASK == 15
TMC_CHOPCONF_TOFF_SHIFT == 0
TMC_CHOPCONF_TOFF(n) == Shl(BitAnd(n, 15), 0)
TMC_CHOPCONF_HSTRT(n) == Shl(BitAnd(n, 7), 4)
TMC_CHOPCONF_HEND(n) == Shl(BitAnd(n, 15), 7)
TMC_CHOPCONF_HDEC(n) == Shl(BitAnd(n, 3), 11)
TMC_CHOPCONF_RNDTF == 8192
TMC_CHOPCONF_CHM == 16384
TMC_CHOPCONF_TBL_MASK == 98304
TMC_CHOPCONF_TBL(n) == Shl(BitAnd(n, 3), 15)

TMC_DRVCTRL_MRES_MASK == 15
TMC_DRVCTRL_MRES_SHIFT == 0
TMC_DRVCTRL_MRES_16 == 4
TMC_DRVCTRL_DEDGE == 256
TMC_DRVCTRL_INTPOL == 512

TMC_SGCSCONF_CS_MASK == 31
TMC_SGCSCONF_SGT_MASK == 32512
TMC_SGCSCONF_SGT_SHIFT == 8
TMC_SGCSCONF_SGT(n) == Shl(BitAnd(n, 127), 8)
TMC_SGCSCONF_SGT_SFILT == 65536

\* Status (readback) bits; TMC2660.h is not part of the sources, the layout is
\* the one the specification gives: SG[0], OT[1], OTPW[2], S2G[3], OLA[5],
\* OLB[6], STST[7], LOAD[19:10].
TMC_RR_SG == 1
TMC_RR_OT == 2
TMC_RR_OTPW == 4
TMC_RR_S2G == 8
TMC_RR_OLA == 32
TMC_RR_OLB == 64
TMC_RR_STST == 128
TMC_RR_SG_LOAD_SHIFT == 10

\* the seven flags ReadLiveStatus and ReadAccumulatedStatus report
TMC_RR_FLAGS ==
    BitOr(TMC_RR_SG, BitOr(TMC_RR_OT, BitOr(TMC_RR_OTPW, BitOr(TMC_RR_S2G,
        BitOr(TMC_RR_OLA, BitOr(TMC_RR_OLB, TMC_RR_STST))))))

\* step clock ticks per second (VARIANT_MCK/128 on the Duet); not part of the sources
StepClockRate == 937500

MaximumMotorCurrent == 2400
DefaultMicrosteppingShift == 4
DefaultInterpolation == TRUE
DefaultStallDetectThreshold == 1
DefaultStallDetectFiltered == FALSE
DefaultMinimumStepsPerSecond == 200
DefaultStallGuardThreshold == 1

NumRegisters == 5
DriveControl == 0
StallGuardConfig == 1
ChopperControl == 2
DriveConfig == 3
SmartEnable == 4
UpdateAllRegisters == Shl(1, NumRegisters) - 1

defaultChopConfReg ==
    BitOr(TMC_REG_CHOPCONF, BitOr(TMC_CHOPCONF_TBL(2), BitOr(TMC_CHOPCONF_HDEC(0),
        BitOr(TMC_CHOPCONF_HEND(3), BitOr(TMC_CHOPCONF_HSTRT(3), TMC_CHOPCONF_TOFF(4))))))

defaultSgscConfReg == BitOr(TMC_REG_SGCSCONF, TMC_SGCSCONF_SGT(DefaultStallGuardThreshold))

defaultDrvConfReg ==
    BitOr(TMC_REG_DRVCONF, BitOr(TMC_DRVCONF_RDSEL_1,
        BitOr(TMC_DRVCONF_VSENSE, TMC_DRVCONF_TS2G_0P8)))

defaultDrvCtrlReg == BitOr(TMC_REG_DRVCTRL, BitOr(TMC_DRVCTRL_MRES_16, TMC_DRVCTRL_INTPOL))

defaultSmartEnReg == BitOr(TMC_REG_SMARTEN, 0)

\* currentDriver == nullptr
nullptr == -1

\* Menu.h: the maximum number of nested menus
MaxMenuNesting == 5

\* the Menu object as its constructor leaves it; numNestedMenus is a size_t
\* and holds its 32-bit pattern, written as a negative number when the top
\* bit is set (-1 is SIZE_MAX); fname is the name that Reload last read
MenuConstructed ==
    [ numNestedMenus |-> 0,
      filenames |-> [i \in 0 .. (MaxMenuNesting - 1) |-> ""],
      fname |-> "",
      numSelectableItems |-> 0,
      m_bTimeoutEnabled |-> FALSE,
      loaded |-> FALSE ]

----------------------------------------------------------------------------
(* State *)

VARIABLES
    numTmc2660Drivers,  \* static size_t numTmc2660Drivers
    driversPowered,     \* static bool driversPowered
    driverStates,       \* static TmcDriverState driverStates[]: index -> record of the fields
    currentDriver,      \* index of the driver whose frame is in flight, or nullptr
    enablePin,          \* level of GlobalTmc2660EnablePin (ENN, active low)
    pinLevel,           \* level of each driver's chip-select pin
    spiDataOut,         \* the word the PDC transmits from
    endrxEnabled,       \* end-of-receive interrupt enabled in the peripheral (IER/IDR)
    nvicEnabled,        \* NVIC_EnableIRQ(TMC2660_SPI_IRQn) has been called
    frameInFlight,      \* the PDC was armed by SetupDMA and the handler has not yet run
    main,               \* main thread: the call in progress, its position and locals
    isr,                \* SPI handler: its position and captured driver
    lastFrame,          \* history: the most recent frame started
    hadFrame,           \* history: drivers that got a frame since the ring was last started
    framesSince,        \* history: [i][j] frames to j since the last frame to i (capped at 2)
    firstFrames,        \* history: frames started since Init, until the first power loss
    spunUp,             \* history: a Spin(true) call has begun since Init
    undisturbed,        \* history: since Init no power was lost after that and no setter was called
    phase,              \* history: "off" (not followed), "none", "lost" (power lost) or "resync" (Spin(true) began after it)
    sentSince,          \* history: per driver, registers sent since the resync began
    expected,           \* history: per driver, what the last accumulator read left, OR the status words decoded since
    owed,               \* history: per driver, the alarm flags decoded since the last accumulator read
    justEnabled,        \* history: the driver whose Enable(true) was the last main-thread call, or nullptr
    loadSeen,           \* history: per followed driver, the loads sampled since its extremes were last reset
    sent,               \* history: per followed driver and register, the last values transmitted (at most SentKept)
    written,            \* history: the shadow words written by the setter calls that run step by step
    lastCall,           \* history: the facade call that has just returned and its result
    menu                \* the Menu object: the fields that Load, Pop and Reload use

vars == << numTmc2660Drivers, driversPowered, driverStates, currentDriver, enablePin,
           pinLevel, spiDataOut, endrxEnabled, nvicEnabled, frameInFlight, main, isr,
           lastFrame, hadFrame, framesSince, firstFrames, spunUp, undisturbed, phase,
           sentSince, expected, owed, justEnabled, loadSeen, sent, written, lastCall,
           menu >>

\* everything but the Menu object
tmcVars == << numTmc2660Drivers, driversPowered, driverStates, currentDriver, enablePin,
              pinLevel, spiDataOut, endrxEnabled, nvicEnabled, frameInFlight, main, isr,
              lastFrame, hadFrame, framesSince, firstFrames, spunUp, undisturbed, phase,
              sentSince, expected, owed, justEnabled, loadSeen, sent, written, lastCall >>

hwVars == << enablePin, pinLevel, spiDataOut, endrxEnabled, nvicEnabled, frameInFlight >>
ringHist == << lastFrame, hadFrame, framesSince, sent >>
frameHist == << lastFrame, hadFrame, framesSince, firstFrames, sentSince, phase, sent >>
powerHist == << spunUp, undisturbed >>
callHist == << expected, owed, justEnabled, loadSeen >>

Drivers == 0 .. (numTmc2660Drivers - 1)

----------------------------------------------------------------------------
(* TmcDriverState: each method as a function of the driver's record *)

ResetLoadRegisters(ds) ==
    [ds EXCEPT !.minSgLoadRegister = 1023, !.maxSgLoadRegister = 0]

\* registersToUpdate |= 1u << regNum
MarkDirty(ds, regNum) ==
    [ds EXCEPT !.registersToUpdate = BitOr(ds.registersToUpdate, Shl(1, regNum))]

WriteAll(ds) == [ds EXCEPT !.registersToUpdate = UpdateAllRegisters]

\* variant: the configured word is written whatever the enabled flag says
UpdateChopConfRegister_Ungated(ds) ==
    MarkDirty([ds EXCEPT !.registers[ChopperControl] = ds.configuredChopConfReg],
              ChopperControl)

UpdateChopConfRegister(ds) ==
    MarkDirty(
        [ds EXCEPT !.registers[ChopperControl] =
            IF ds.enabled THEN ds.configuredChopConfReg
            ELSE BitClear(ds.configuredChopConfReg, TMC_CHOPCONF_TOFF_MASK)],
        ChopperControl)

\* variant: only TOFF = 0 is refused
ChopConfLegal_AnyBlankTime(newVal) ==
    Shr(BitAnd(newVal, TMC_CHOPCONF_TOFF_MASK), TMC_CHOPCONF_TOFF_SHIFT) # 0

\* TOFF = 0 and TOFF = 1 with TBL = 0 are refused
ChopConfLegal(newVal) ==
    LET toff == Shr(BitAnd(newVal, TMC_CHOPCONF_TOFF_MASK), TMC_CHOPCONF_TOFF_SHIFT)
    IN ~(toff = 0 \/ (toff = 1 /\ BitAnd(newVal, TMC_CHOPCONF_TBL_MASK) = 0))

\* variant: the new value is saved without the mask of line 307
SetChopConf_Unmasked(ds, newVal) ==
    IF ~ChopConfLegal(newVal) THEN ds
    ELSE UpdateChopConfRegister(
            [ds EXCEPT !.configuredChopConfReg = BitOr(newVal, TMC_REG_CHOPCONF)])

\* the driver after SetChopConf(newVal); SetChopConf returns ChopConfLegal(newVal)
SetChopConf(ds, newVal) ==
    IF ~ChopConfLegal(newVal) THEN ds
    ELSE UpdateChopConfRegister(
            [ds EXCEPT !.configuredChopConfReg =
                BitOr(BitAnd(newVal, TMC_DATA_MASK), TMC_REG_CHOPCONF)])

\* the value SetOffTime hands to SetChopConf
OffTimeChopConf(ds, newVal) ==
    BitOr(BitClear(ds.configuredChopConfReg, TMC_CHOPCONF_TOFF_MASK),
          BitAnd(Shl(newVal, TMC_CHOPCONF_TOFF_SHIFT), TMC_CHOPCONF_TOFF_MASK))

\* variant: the range of the off time is not tested
SetOffTimeResult_AnyRange(ds, newVal) == ChopConfLegal(OffTimeChopConf(ds, newVal))

SetOffTimeResult(ds, newVal) ==
    IF newVal > 15 THEN FALSE ELSE ChopConfLegal(OffTimeChopConf(ds, newVal))

\* variant: the off time is masked and applied without the range test
SetOffTime_Unchecked(ds, newVal) == SetChopConf(ds, OffTimeChopConf(ds, newVal))

SetOffTime(ds, newVal) ==
    IF newVal > 15 THEN ds ELSE SetChopConf(ds, OffTimeChopConf(ds, newVal))

\* DriverMode is declared outside the sources; its values are kept symbolic
DriverModes == {"constantOffTime", "randomOffTime", "spreadCycle"}

\* variant: random off time is selected without the chopper-mode bit
DriverModeChopConf_NoChopperMode(ds, mode) ==
    CASE mode = "constantOffTime" ->
            BitOr(BitClear(ds.configuredChopConfReg, TMC_CHOPCONF_RNDTF), TMC_CHOPCONF_CHM)
      [] mode = "randomOffTime" ->
            BitOr(ds.configuredChopConfReg, TMC_CHOPCONF_RNDTF)
      [] mode = "spreadCycle" ->
            BitClear(ds.configuredChopConfReg, BitOr(TMC_CHOPCONF_RNDTF, TMC_CHOPCONF_CHM))

\* the value SetDriverMode hands to SetChopConf
DriverModeChopConf(ds, mode) ==
    CASE mode = "constantOffTime" ->
            BitOr(BitClear(ds.configuredChopConfReg, TMC_CHOPCONF_RNDTF), TMC_CHOPCONF_CHM)
      [] mode = "randomOffTime" ->
            BitOr(ds.configuredChopConfReg, BitOr(TMC_CHOPCONF_RNDTF, TMC_CHOPCONF_CHM))
      [] mode = "spreadCycle" ->
            BitClear(ds.configuredChopConfReg, BitOr(TMC_CHOPCONF_RNDTF, TMC_CHOPCONF_CHM))

SetDriverModeResult(ds, mode) ==
    IF mode \in DriverModes THEN ChopConfLegal(DriverModeChopConf(ds, mode)) ELSE FALSE

SetDriverMode(ds, mode) ==
    IF mode \in DriverModes THEN SetChopConf(ds, DriverModeChopConf(ds, mode)) ELSE ds

GetDriverMode(ds) ==
    IF BitAnd(ds.configuredChopConfReg, TMC_CHOPCONF_CHM) = 0 THEN "spreadCycle"
    ELSE IF BitAnd(ds.configuredChopConfReg, TMC_CHOPCONF_RNDTF) = 0 THEN "constantOffTime"
    ELSE "randomOffTime"

\* variant: the shift itself is written to the MRES field
MicrostepResolution_Shift(shift) ==
    BitAnd(Shl(shift, TMC_DRVCTRL_MRES_SHIFT), TMC_DRVCTRL_MRES_MASK)

\* line 354: ((8u - shift) << TMC_DRVCTRL_MRES_SHIFT) & TMC_DRVCTRL_MRES_MASK
MicrostepResolution(shift) ==
    BitAnd(Shl(LowBits(8 - shift, 8), TMC_DRVCTRL_MRES_SHIFT), TMC_DRVCTRL_MRES_MASK)

SetMicrostepping(ds, shift, interpolate) ==
    LET cleared == BitClear(ds.registers[DriveControl], TMC_DRVCTRL_MRES_MASK)
        withRes == BitOr(cleared, MicrostepResolution(shift))
        drvCtrlReg == IF interpolate THEN BitOr(withRes, TMC_DRVCTRL_INTPOL)
                      ELSE BitClear(withRes, TMC_DRVCTRL_INTPOL)
    IN MarkDirty([ds EXCEPT !.microstepShiftFactor = shift,
                            !.registers[DriveControl] = drvCtrlReg],
                 DriveControl)

SetAxisNumber(ds, p_axisNumber) == [ds EXCEPT !.axisNumber = p_axisNumber]

\* line 48: TMC_SGCSCONF_CS(n)
TMC_SGCSCONF_CS(n) == Shl(BitAnd(n, 31), 0)

\* constrain<int>(val, vmin, vmax)
constrain(val, vmin, vmax) == IF val < vmin THEN vmin ELSE IF val > vmax THEN vmax ELSE val

\* variant: the current is limited from above only
CurrentClamped_NoFloor(current) ==
    (IF current > 10 * MaximumMotorCurrent THEN 10 * MaximumMotorCurrent ELSE current) \div 10

\* line 373: constrain<float>(current, 100.0, MaximumMotorCurrent) converted to
\* uint32_t, which drops the fraction.  A float current is given here by its
\* number of tenths of a milliampere.
CurrentClamped(current) == constrain(current, 10 * 100, 10 * MaximumMotorCurrent) \div 10

\* line 374: (32 * iCurrent - 1600)/3236 in uint32_t.  A negative difference
\* wraps to 2^32 + diff, and 2^32 = 3236 * 1327245 + 2476.
CurrentScaleBits(iCurrent) ==
    LET diff == 32 * iCurrent - 1600
    IN IF diff >= 0 THEN diff \div 3236
       ELSE 1327245 + ((2476 + diff) \div 3236)

\* SetCurrent, current in tenths of a milliampere
SetCurrent(ds, current) ==
    LET iCurrent == CurrentClamped(current)
        csBits == CurrentScaleBits(iCurrent)
    IN MarkDirty(
        [ds EXCEPT !.registers[StallGuardConfig] =
            BitOr(BitClear(ds.registers[StallGuardConfig], TMC_SGCSCONF_CS_MASK),
                  TMC_SGCSCONF_CS(csBits))],
        StallGuardConfig)

\* SetCoolStep, coolStepConfig a uint16_t
SetCoolStep(ds, coolStepConfig) ==
    MarkDirty([ds EXCEPT !.registers[SmartEnable] = BitOr(TMC_REG_SMARTEN, coolStepConfig)],
              SmartEnable)

\* variant: only fields above 64 are taken as negative
StallThresholdShown_Above(ds) ==
    LET threshold == Shr(BitAnd(ds.registers[StallGuardConfig], TMC_SGCSCONF_SGT_MASK),
                         TMC_SGCSCONF_SGT_SHIFT)
    IN IF threshold > 64 THEN threshold - 128 ELSE threshold

\* the stall threshold AppendStallConfig prints
StallThresholdShown(ds) ==
    LET threshold == Shr(BitAnd(ds.registers[StallGuardConfig], TMC_SGCSCONF_SGT_MASK),
                         TMC_SGCSCONF_SGT_SHIFT)
    IN IF threshold >= 64 THEN threshold - 128 ELSE threshold

\* variant: the register is rebuilt from its address and the threshold
SetStallDetectThreshold_Rebuilt(ds, sgThreshold) ==
    LET sgVal == LowBits(constrain(sgThreshold, -64, 63), 7)
    IN MarkDirty(
        [ds EXCEPT !.registers[StallGuardConfig] =
            BitOr(TMC_REG_SGCSCONF, Shl(sgVal, TMC_SGCSCONF_SGT_SHIFT))],
        StallGuardConfig)

SetStallDetectThreshold(ds, sgThreshold) ==
    LET sgVal == LowBits(constrain(sgThreshold, -64, 63), 7)
    IN MarkDirty(
        [ds EXCEPT !.registers[StallGuardConfig] =
            BitOr(BitClear(ds.registers[StallGuardConfig], TMC_SGCSCONF_SGT_MASK),
                  Shl(sgVal, TMC_SGCSCONF_SGT_SHIFT))],
        StallGuardConfig)

SetStallDetectFilter(ds, sgFilter) ==
    MarkDirty(
        [ds EXCEPT !.registers[StallGuardConfig] =
            IF sgFilter THEN BitOr(ds.registers[StallGuardConfig], TMC_SGCSCONF_SGT_SFILT)
            ELSE BitClear(ds.registers[StallGuardConfig], TMC_SGCSCONF_SGT_SFILT)],
        StallGuardConfig)

SetStallMinimumStepsPerSecond(ds, stepsPerSecond) ==
    [ds EXCEPT !.maxStallStepInterval =
        StepClockRate \div (IF stepsPerSecond > 1 THEN stepsPerSecond ELSE 1)]

\* variant: Enable acts whatever the enabled flag says
Enable_Unconditional(ds, en) ==
    LET cleared ==
            IF en
            THEN [ds EXCEPT !.accumulatedStatus = BitClear(ds.accumulatedStatus, TMC_RR_SG),
                            !.lastReadStatus = BitClear(ds.lastReadStatus, TMC_RR_SG)]
            ELSE ds
    IN UpdateChopConfRegister([cleared EXCEPT !.enabled = en])

\* Enable as one uninterrupted call
Enable(ds, en) ==
    IF ds.enabled = en THEN ds
    ELSE LET cleared ==
                IF en
                THEN [ds EXCEPT !.accumulatedStatus = BitClear(ds.accumulatedStatus, TMC_RR_SG),
                                !.lastReadStatus = BitClear(ds.lastReadStatus, TMC_RR_SG)]
                ELSE ds
         IN UpdateChopConfRegister([cleared EXCEPT !.enabled = en])

\* variant: the whole status word is returned
ReadLiveStatus_Unmasked(ds) ==
    IF ds.enabled THEN ds.lastReadStatus ELSE BitClear(ds.lastReadStatus, TMC_RR_SG)

\* the value ReadLiveStatus returns
ReadLiveStatus(ds) ==
    LET ret == BitAnd(ds.lastReadStatus, TMC_RR_FLAGS)
    IN IF ds.enabled THEN ret ELSE BitClear(ret, TMC_RR_SG)

\* variant: the mask keeps SG for a disabled driver too
AccumulatedMask_AllOnes(ds) == StatusBits

\* ReadAccumulatedStatus: the mask, the driver afterwards and the value returned
AccumulatedMask(ds) == IF ds.enabled THEN StatusBits ELSE BitClear(StatusBits, TMC_RR_SG)

ReadAccumulatedStatus(ds, bitsToKeep) ==
    [ds EXCEPT !.accumulatedStatus =
        BitAnd(ds.accumulatedStatus, BitAnd(bitsToKeep, AccumulatedMask(ds)))]

ReadAccumulatedStatusResult(ds) ==
    BitAnd(BitAnd(ds.accumulatedStatus, TMC_RR_FLAGS), AccumulatedMask(ds))

\* GetMicrostepping: the value returned and the interpolation flag
GetMicrostepping(ds) ==
    << Shl(1, ds.microstepShiftFactor),
       BitAnd(ds.registers[DriveControl], TMC_DRVCTRL_INTPOL) # 0 >>

\* variant: the getter reads the shadow register
GetChopConf_Shadow(ds) == BitAnd(ds.registers[ChopperControl], TMC_DATA_MASK)

GetChopConf(ds) == BitAnd(ds.configuredChopConfReg, TMC_DATA_MASK)

GetOffTime(ds) ==
    Shr(BitAnd(ds.configuredChopConfReg, TMC_CHOPCONF_TOFF_MASK), TMC_CHOPCONF_TOFF_SHIFT)

\* TmcDriverState::Init
TmcInit(p_axisNumber, p_pin) ==
    LET start ==
            [ axisNumber |-> p_axisNumber,
              pin |-> p_pin,
              enabled |-> FALSE,
              registers |->
                [r \in 0 .. (NumRegisters - 1) |->
                    CASE r = DriveControl -> defaultDrvCtrlReg
                      [] r = ChopperControl ->
                            BitClear(defaultChopConfReg, TMC_CHOPCONF_TOFF_MASK)
                      [] r = SmartEnable -> defaultSmartEnReg
                      [] r = StallGuardConfig -> defaultSgscConfReg
                      [] r = DriveConfig -> defaultDrvConfReg],
              configuredChopConfReg |-> defaultChopConfReg,
              registersToUpdate |-> UpdateAllRegisters,
              accumulatedStatus |-> 0,
              lastReadStatus |-> 0,
              minSgLoadRegister |-> 1023,
              maxSgLoadRegister |-> 0,
              microstepShiftFactor |-> 0,
              maxStallStepInterval |-> 0 ]
    IN SetStallMinimumStepsPerSecond(
          SetStallDetectFilter(
             SetStallDetectThreshold(
                SetMicrostepping(start, DefaultMicrosteppingShift, DefaultInterpolation),
                DefaultStallDetectThreshold),
             DefaultStallDetectFiltered),
          DefaultMinimumStepsPerSecond)


----------------------------------------------------------------------------
(* StartTransfer and SetupDMA *)

\* the do-while loop of StartTransfer: the first of registers 0..3 whose bit
\* is set in toUpdate, else register 4
RECURSIVE FindRegister(_, _, _)
FindRegister(toUpdate, regNum, mask) ==
    IF BitAnd(toUpdate, mask) # 0 THEN regNum
    ELSE IF regNum + 1 < NumRegisters - 1
         THEN FindRegister(toUpdate, regNum + 1, Shl(mask, 1))
         ELSE regNum + 1

\* variant: StartTransfer sends the highest-numbered dirty register
SelectRegister_Highest(toUpdate) ==
    IF toUpdate = 0 THEN SmartEnable
    ELSE CHOOSE r \in 0 .. (NumRegisters - 1) : toUpdate \div (2 ^ r) = 1

\* the register StartTransfer sends when it reads toUpdate
SelectRegister(toUpdate) ==
    IF toUpdate = 0 THEN SmartEnable ELSE FindRegister(toUpdate, 0, 1)

\* variant: StartTransfer clears the whole dirty mask
ClearSelected_All(toUpdate) == 0

\* registersToUpdate after StartTransfer, reading toUpdate and storing over current
ClearSelected(toUpdate) ==
    IF toUpdate = 0 THEN toUpdate
    ELSE BitClear(toUpdate, Shl(1, SelectRegister(toUpdate)))

\* variant: the byte order is not reversed
SetupDMA_NoSwap(outVal) == Shl(outVal, 8)

\* spiDataOut as SetupDMA writes it
SetupDMA(outVal) == cpu_to_be32(Shl(outVal, 8))

\* the 24-bit frame the PDC transmits from spiDataOut: 3 bytes, lowest address
\* first, each byte most significant bit first
SentFrame(dataOut) ==
    LET b == Bytes(dataOut) IN b[1] * 65536 + b[2] * 256 + b[3]

NoFrame == [drv |-> nullptr, reg |-> 0, keepAlive |-> FALSE]

\* how many of the values transmitted for a register the history keeps
SentKept == 3

\* the frames of no driver are followed, no setter has run step by step
NoSent == << >>
NotTraced == sent = NoSent /\ written = << >>

\* the history of a register after one more value was transmitted for it
KeepSent(values, value) ==
    LET all == Append(values, value)
    IN IF Len(all) > SentKept THEN Tail(all) ELSE all

AllRegisters == 0 .. (NumRegisters - 1)

\* history kept when a frame for register regNum of driver d is started; the
\* registers re-sent after a power loss are followed until every driver has
\* sent all five or a keep-alive frame goes out
NoteFrame(d, regNum, keepAlive) ==
    LET resent == IF phase = "resync" /\ ~keepAlive
                  THEN [sentSince EXCEPT ![d] = @ \cup {regNum}]
                  ELSE sentSince
        done == phase = "resync" /\ (keepAlive \/ \A e \in Drivers : resent[e] = AllRegisters)
    IN /\ lastFrame' = [drv |-> d, reg |-> regNum, keepAlive |-> keepAlive]
       /\ hadFrame' = hadFrame \cup {d}
       /\ framesSince' =
             [i \in Drivers |->
                 IF i = d THEN [j \in Drivers |-> 0]
                 ELSE [framesSince[i] EXCEPT ![d] = IF @ < 2 THEN @ + 1 ELSE @]]
       /\ firstFrames' =
             IF undisturbed /\ Len(firstFrames) < NumRegisters * numTmc2660Drivers
             THEN Append(firstFrames, << d, regNum, keepAlive >>)
             ELSE firstFrames
       /\ sentSince' = IF done THEN [e \in Drivers |-> {}] ELSE resent
       /\ phase' = IF done THEN "none" ELSE phase
       /\ sent' = [e \in DOMAIN sent |->
                      IF e = d
                      THEN [sent[e] EXCEPT ![regNum] = KeepSent(@, SentFrame(spiDataOut'))]
                      ELSE sent[e]]

\* history dropped when the ring halts
NoteHalt ==
    /\ lastFrame' = NoFrame
    /\ hadFrame' = {}
    /\ framesSince' = [i \in Drivers |-> [j \in Drivers |-> 0]]
    /\ UNCHANGED sent

\* the interrupt-disabled tail of StartTransfer: chip select low, PDC armed,
\* end-of-receive interrupt enabled
KickOff(d, regVal) ==
    /\ pinLevel' = [pinLevel EXCEPT ![driverStates[d].pin] = "LOW"]
    /\ spiDataOut' = SetupDMA(regVal)
    /\ endrxEnabled' = TRUE
    /\ frameInFlight' = TRUE

----------------------------------------------------------------------------
(* SPI interrupt handler *)

\* 3 bytes received MSB first into spiDataIn, for a 24-bit frame
WireWord(frame24) ==
      ((frame24 \div 65536) % 256)
    + ((frame24 \div 256) % 256) * 256
    + (frame24 % 256) * 65536

\* variant: an interval equal to maxStallStepInterval is outside the window too
OutsideWindow_Strict(ds, interval) == interval = 0 \/ interval >= ds.maxStallStepInterval

\* line 534: the motor is too slow for a reliable stall indication
OutsideWindow(ds, interval) == interval = 0 \/ interval > ds.maxStallStepInterval

\* the loads TransferDone compares with the extremes: the load field of the
\* word received when the interval is inside the window, none otherwise
SampledLoad(ds, spiDataIn, interval) ==
    IF OutsideWindow(ds, interval) THEN {}
    ELSE {BitAnd(Shr(be32_to_cpu_shr12(spiDataIn), TMC_RR_SG_LOAD_SHIFT), 1023)}

\* the driver after TransferDone decoded spiDataIn while powered
DecodeStatus(ds, spiDataIn, interval) ==
    LET raw == be32_to_cpu_shr12(spiDataIn)
        outside == OutsideWindow(ds, interval)
        status == IF outside THEN BitClear(raw, TMC_RR_SG) ELSE raw
        sgLoad == BitAnd(Shr(status, TMC_RR_SG_LOAD_SHIFT), 1023)
        loaded ==
            IF outside THEN ds
            ELSE [ds EXCEPT
                    !.minSgLoadRegister = IF sgLoad < @ THEN sgLoad ELSE @,
                    !.maxSgLoadRegister = IF sgLoad > @ THEN sgLoad ELSE @]
    IN [loaded EXCEPT !.lastReadStatus = status,
                      !.accumulatedStatus = BitOr(@, status)]

\* variant: the status is decoded whatever driversPowered says
TransferDone_Always(ds, spiDataIn, interval) == DecodeStatus(ds, spiDataIn, interval)

\* TransferDone: the status part runs only while driversPowered
TransferDone(ds, spiDataIn, interval) ==
    IF driversPowered THEN DecodeStatus(ds, spiDataIn, interval) ELSE ds

\* the non-SG alarm flags of a status word
AlarmBits(status) == BitAnd(status, BitClear(TMC_RR_FLAGS, TMC_RR_SG))

\* variant: the wrap-around test is one driver early
NextDriver_EarlyWrap(d) == IF d + 1 >= numTmc2660Drivers - 1 THEN 0 ELSE d + 1

\* the driver the handler polls after driver d
NextDriver(d) == IF d + 1 = numTmc2660Drivers THEN 0 ELSE d + 1

IsrIdle == [pc |-> "idle", driver |-> nullptr, spiDataIn |-> 0, interval |-> 0]

\* the load extremes of no driver are followed
NoLoads == << >>

\* no facade call has just returned
NoCall ==
    [op |-> "none", driver |-> 0, arg |-> 0, ret |-> 0, old |-> 0, left |-> 0,
     expected |-> 0, owed |-> 0, enabled |-> FALSE, afterEnable |-> FALSE,
     interpolate |-> FALSE, mode |-> "none"]

\* the handler may run: the interrupt is enabled in the peripheral and in the NVIC
InterruptPending == endrxEnabled /\ nvicEnabled /\ isr.pc = "idle"

\* handler entry: capture currentDriver; with a current driver call TransferDone,
\* with none stop polling.  A reply is the word received and the step interval
\* the motion system reports for the driver's axis.
HandlerEntry(Replies) ==
    /\ InterruptPending
    /\ IF currentDriver # nullptr
       THEN /\ \E reply \in Replies :
                  LET d == currentDriver
                      after == TransferDone(driverStates[d], reply[1], reply[2])
                  IN /\ driverStates' = [driverStates EXCEPT ![d] = after]
                     /\ expected' = [expected EXCEPT ![d] =
                                        IF driversPowered
                                        THEN BitOr(@, after.lastReadStatus) ELSE @]
                     /\ owed' = [owed EXCEPT ![d] =
                                    IF driversPowered
                                    THEN BitOr(@, AlarmBits(after.lastReadStatus)) ELSE @]
                     /\ loadSeen' =
                           [e \in DOMAIN loadSeen |->
                               IF e = d /\ driversPowered
                               THEN loadSeen[e] \cup
                                       SampledLoad(driverStates[d], reply[1], reply[2])
                               ELSE loadSeen[e]]
                     /\ isr' = [pc |-> "afterDone", driver |-> currentDriver,
                                spiDataIn |-> reply[1], interval |-> reply[2]]
            /\ pinLevel' = [pinLevel EXCEPT ![driverStates[currentDriver].pin] = "HIGH"]
            /\ frameInFlight' = FALSE
            /\ UNCHANGED << currentDriver, endrxEnabled >>
       ELSE /\ endrxEnabled' = FALSE
            /\ currentDriver' = nullptr
            /\ UNCHANGED << driverStates, expected, owed, loadSeen, pinLevel,
                            frameInFlight, isr >>
    /\ UNCHANGED << numTmc2660Drivers, menu, written, driversPowered, enablePin, spiDataOut,
                    nvicEnabled, main, frameHist, powerHist, justEnabled >>
    /\ lastCall' = NoCall

\* handler, power still good: start the transfer of the next driver
HandlerNext ==
    /\ isr.pc = "afterDone"
    /\ driversPowered
    /\ LET d == NextDriver(isr.driver)
           ds == driverStates[d]
           regNum == SelectRegister(ds.registersToUpdate)
       IN /\ currentDriver' = d
          /\ driverStates' =
                [driverStates EXCEPT ![d].registersToUpdate = ClearSelected(@)]
          /\ KickOff(d, ds.registers[regNum])
          /\ NoteFrame(d, regNum, ds.registersToUpdate = 0)
    /\ isr' = IsrIdle
    /\ UNCHANGED << numTmc2660Drivers, menu, written, driversPowered, enablePin, nvicEnabled, main,
                    powerHist, callHist >>
    /\ lastCall' = NoCall

\* handler, power down: stop polling
HandlerStop ==
    /\ isr.pc = "afterDone"
    /\ ~driversPowered
    /\ endrxEnabled' = FALSE
    /\ currentDriver' = nullptr
    /\ isr' = IsrIdle
    /\ NoteHalt
    /\ UNCHANGED << numTmc2660Drivers, menu, written, driversPowered, driverStates, enablePin, pinLevel,
                    spiDataOut, nvicEnabled, frameInFlight, main, firstFrames, sentSince,
                    phase, powerHist, callHist >>
    /\ lastCall' = NoCall

----------------------------------------------------------------------------
(* SmartDrivers::Init, Spin and TurnDriversOff *)

MainIdle ==
    [pc |-> "idle", powered |-> FALSE, wasPowered |-> FALSE, driver |-> 0,
     en |-> FALSE, tmp |-> 0, regNum |-> 0]

\* the main thread may take a step: the SPI handler is not running
MainRuns == isr.pc = "idle"


\* the state SmartDrivers::Init(pins, numTmcDrivers) leaves, numTmcDrivers already
\* clamped to MaxSmartDrivers; the call history is set by the specification
SmartDriversInit(numTmcDrivers) ==
    /\ numTmc2660Drivers = numTmcDrivers
    /\ driversPowered = FALSE
    /\ driverStates = [d \in 0 .. (numTmcDrivers - 1) |-> TmcInit(d, d)]
    /\ currentDriver = nullptr
    /\ enablePin = "HIGH"
    /\ pinLevel = [d \in 0 .. (numTmcDrivers - 1) |-> "HIGH"]
    /\ spiDataOut = 0
    /\ endrxEnabled = FALSE
    /\ nvicEnabled = FALSE
    /\ frameInFlight = FALSE
    /\ main = MainIdle
    /\ isr = IsrIdle
    /\ lastFrame = NoFrame
    /\ hadFrame = {}
    /\ framesSince = [i \in 0 .. (numTmcDrivers - 1) |->
                        [j \in 0 .. (numTmcDrivers - 1) |-> 0]]
    /\ firstFrames = << >>
    /\ spunUp = FALSE
    /\ undisturbed = TRUE
    /\ sentSince = [d \in 0 .. (numTmcDrivers - 1) |-> {}]
    /\ expected = [d \in 0 .. (numTmcDrivers - 1) |-> 0]
    /\ owed = [d \in 0 .. (numTmcDrivers - 1) |-> 0]
    /\ justEnabled = nullptr

\* history kept when a call that takes power away begins
NotePowerLoss ==
    /\ undisturbed' = (undisturbed /\ ~spunUp)
    /\ phase' = IF spunUp /\ phase # "off" THEN "lost" ELSE phase
    /\ firstFrames' = IF spunUp THEN << >> ELSE firstFrames
    /\ sentSince' = [d \in Drivers |-> {}]
    /\ UNCHANGED spunUp

\* Spin(powered), line 808: wasPowered = driversPowered
SpinBegin(powered) ==
    /\ MainRuns
    /\ main.pc = "idle"
    /\ main' = [MainIdle EXCEPT !.pc = "Spin_store", !.powered = powered,
                                !.wasPowered = driversPowered]
    /\ IF powered
       THEN /\ spunUp' = TRUE
            /\ phase' = IF phase = "lost" THEN "resync" ELSE phase
            /\ UNCHANGED << undisturbed, firstFrames, sentSince >>
       ELSE NotePowerLoss
    /\ justEnabled' = nullptr
    /\ UNCHANGED << numTmc2660Drivers, menu, written, driversPowered, driverStates, currentDriver, hwVars,
                    isr, ringHist, expected, owed, loadSeen >>
    /\ lastCall' = NoCall

\* where Spin goes after driversPowered = powered
SpinBranch(powered, wasPowered) ==
    IF powered THEN (IF ~wasPowered THEN "Spin_enable" ELSE "Spin_check")
    ELSE (IF wasPowered THEN "Spin_disable" ELSE "idle")

\* line 809: driversPowered = powered
SpinStore ==
    /\ MainRuns
    /\ main.pc = "Spin_store"
    /\ driversPowered' = main.powered
    /\ main' = LET to == SpinBranch(main.powered, main.wasPowered)
               IN IF to = "idle" THEN MainIdle ELSE [main EXCEPT !.pc = to]
    /\ UNCHANGED << numTmc2660Drivers, menu, written, driverStates, currentDriver, hwVars, isr,
                    frameHist, powerHist, callHist >>
    /\ lastCall' = NoCall

\* lines 815-816: digitalWrite(GlobalTmc2660EnablePin, LOW) and the delay
SpinEnable ==
    /\ MainRuns
    /\ main.pc = "Spin_enable"
    /\ enablePin' = "LOW"
    /\ main' = [main EXCEPT !.pc = IF numTmc2660Drivers = 0 THEN "Spin_check"
                                   ELSE "Spin_writeAll",
                            !.driver = 0]
    /\ UNCHANGED << numTmc2660Drivers, menu, written, driversPowered, driverStates, currentDriver,
                    pinLevel, spiDataOut, endrxEnabled, nvicEnabled, frameInFlight,
                    isr, frameHist, powerHist, callHist >>
    /\ lastCall' = NoCall

\* lines 818-821: one iteration of the WriteAll loop
SpinWriteAll ==
    /\ MainRuns
    /\ main.pc = "Spin_writeAll"
    /\ driverStates' = [driverStates EXCEPT ![main.driver] = WriteAll(@)]
    /\ main' = IF main.driver + 1 < numTmc2660Drivers
               THEN [main EXCEPT !.driver = @ + 1]
               ELSE [main EXCEPT !.pc = "Spin_check", !.driver = 0]
    /\ UNCHANGED << numTmc2660Drivers, menu, written, driversPowered, currentDriver, hwVars, isr,
                    frameHist, powerHist, callHist >>
    /\ lastCall' = NoCall

\* variant: Spin starts a transfer without looking at currentDriver
SpinShouldKick_Always == numTmc2660Drivers # 0

\* line 823: the test that decides whether Spin starts the first transfer
SpinShouldKick == currentDriver = nullptr /\ numTmc2660Drivers # 0

\* lines 823-826: the test, and NVIC_EnableIRQ when it passes
SpinCheck ==
    /\ MainRuns
    /\ main.pc = "Spin_check"
    /\ IF SpinShouldKick
       THEN /\ nvicEnabled' = TRUE
            /\ main' = [main EXCEPT !.pc = "ST_publish", !.driver = 0]
       ELSE /\ main' = MainIdle
            /\ UNCHANGED nvicEnabled
    /\ UNCHANGED << numTmc2660Drivers, menu, written, driversPowered, driverStates, currentDriver,
                    enablePin, pinLevel, spiDataOut, endrxEnabled, frameInFlight, isr,
                    frameHist, powerHist, callHist >>
    /\ lastCall' = NoCall

\* StartTransfer called by Spin, line 558: currentDriver = this
StartPublish ==
    /\ MainRuns
    /\ main.pc = "ST_publish"
    /\ currentDriver' = main.driver
    /\ main' = [main EXCEPT !.pc = "ST_select"]
    /\ UNCHANGED << numTmc2660Drivers, menu, written, driversPowered, driverStates, hwVars, isr,
                    frameHist, powerHist, callHist >>
    /\ lastCall' = NoCall

\* lines 562-578: read registersToUpdate and choose the register
StartSelect ==
    /\ MainRuns
    /\ main.pc = "ST_select"
    /\ main' = [main EXCEPT !.pc = "ST_clear",
                            !.tmp = driverStates[main.driver].registersToUpdate,
                            !.regNum = SelectRegister(
                                          driverStates[main.driver].registersToUpdate)]
    /\ UNCHANGED << numTmc2660Drivers, menu, written, driversPowered, driverStates, currentDriver, hwVars,
                    isr, frameHist, powerHist, callHist >>
    /\ lastCall' = NoCall

\* lines 579-604: store the cleared mask, read the register, start the frame
StartClearAndKick ==
    /\ MainRuns
    /\ main.pc = "ST_clear"
    /\ LET d == main.driver
       IN /\ driverStates' =
                [driverStates EXCEPT ![d].registersToUpdate =
                    IF main.tmp = 0 THEN @ ELSE ClearSelected(main.tmp)]
          /\ KickOff(d, driverStates[d].registers[main.regNum])
          /\ NoteFrame(d, main.regNum, main.tmp = 0)
    /\ main' = MainIdle
    /\ UNCHANGED << numTmc2660Drivers, menu, written, driversPowered, currentDriver, enablePin,
                    nvicEnabled, isr, powerHist, callHist >>
    /\ lastCall' = NoCall

\* line 832: digitalWrite(GlobalTmc2660EnablePin, HIGH)
SpinDisable ==
    /\ MainRuns
    /\ main.pc = "Spin_disable"
    /\ enablePin' = "HIGH"
    /\ main' = MainIdle
    /\ UNCHANGED << numTmc2660Drivers, menu, written, driversPowered, driverStates, currentDriver,
                    pinLevel, spiDataOut, endrxEnabled, nvicEnabled, frameInFlight,
                    isr, frameHist, powerHist, callHist >>
    /\ lastCall' = NoCall

\* TurnDriversOff, from the tick ISR
TurnDriversOff ==
    /\ enablePin' = "HIGH"
    /\ driversPowered' = FALSE
    /\ NotePowerLoss
    /\ UNCHANGED << numTmc2660Drivers, menu, written, driverStates, currentDriver, pinLevel, spiDataOut,
                    endrxEnabled, nvicEnabled, frameInFlight, main, isr, ringHist,
                    callHist >>
    /\ lastCall' = NoCall

----------------------------------------------------------------------------
(* Facade calls that read or clear the status words *)

\* history kept when a call that changes a shadow register begins
NoteSetter ==
    /\ undisturbed' = FALSE
    /\ firstFrames' = << >>

\* EnableDrive(d, en), lines 382-390: the test, and the load of accumulatedStatus
EnableBegin(d, en) ==
    /\ MainRuns
    /\ main.pc = "idle"
    /\ IF driverStates[d].enabled = en
       THEN /\ main' = MainIdle
            /\ lastCall' = [NoCall EXCEPT !.op = "Enable", !.driver = d]
       ELSE /\ main' = IF en
                       THEN [MainIdle EXCEPT !.pc = "En_storeAcc", !.driver = d, !.en = en,
                                             !.tmp = driverStates[d].accumulatedStatus]
                       ELSE [MainIdle EXCEPT !.pc = "En_write", !.driver = d, !.en = en]
            /\ lastCall' = NoCall
    /\ justEnabled' = nullptr
    /\ IF driverStates[d].enabled = en
       THEN UNCHANGED << firstFrames, undisturbed >>
       ELSE NoteSetter
    /\ UNCHANGED << numTmc2660Drivers, menu, written, driversPowered, driverStates, currentDriver, hwVars,
                    isr, ringHist, sentSince, phase, spunUp, expected, owed, loadSeen >>

\* line 388: the store of accumulatedStatus &= ~TMC_RR_SG
EnableStoreAcc ==
    /\ MainRuns
    /\ main.pc = "En_storeAcc"
    /\ driverStates' = [driverStates EXCEPT ![main.driver].accumulatedStatus =
                            BitClear(main.tmp, TMC_RR_SG)]
    /\ main' = [main EXCEPT !.pc = "En_loadLast"]
    /\ UNCHANGED << numTmc2660Drivers, menu, written, driversPowered, currentDriver, hwVars, isr,
                    frameHist, powerHist, callHist >>
    /\ lastCall' = NoCall

\* line 389: the load of lastReadStatus
EnableLoadLast ==
    /\ MainRuns
    /\ main.pc = "En_loadLast"
    /\ main' = [main EXCEPT !.pc = "En_storeLast",
                            !.tmp = driverStates[main.driver].lastReadStatus]
    /\ UNCHANGED << numTmc2660Drivers, menu, written, driversPowered, driverStates, currentDriver, hwVars,
                    isr, frameHist, powerHist, callHist >>
    /\ lastCall' = NoCall

\* line 389: the store of lastReadStatus &= ~TMC_RR_SG
EnableStoreLast ==
    /\ MainRuns
    /\ main.pc = "En_storeLast"
    /\ driverStates' = [driverStates EXCEPT ![main.driver].lastReadStatus =
                            BitClear(main.tmp, TMC_RR_SG)]
    /\ main' = [main EXCEPT !.pc = "En_write"]
    /\ UNCHANGED << numTmc2660Drivers, menu, written, driversPowered, currentDriver, hwVars, isr,
                    frameHist, powerHist, callHist >>
    /\ lastCall' = NoCall

\* lines 391 and 398: enabled = en and the new chopper control shadow
EnableWrite ==
    /\ MainRuns
    /\ main.pc = "En_write"
    /\ driverStates' =
          [driverStates EXCEPT ![main.driver] =
              [UpdateChopConfRegister([@ EXCEPT !.enabled = main.en])
                  EXCEPT !.registersToUpdate = driverStates[main.driver].registersToUpdate]]
    /\ main' = [main EXCEPT !.pc = "En_dirtyLoad"]
    /\ UNCHANGED << numTmc2660Drivers, menu, written, driversPowered, currentDriver, hwVars, isr,
                    frameHist, powerHist, callHist >>
    /\ lastCall' = NoCall

\* line 399: the load of registersToUpdate
EnableDirtyLoad ==
    /\ MainRuns
    /\ main.pc = "En_dirtyLoad"
    /\ main' = [main EXCEPT !.pc = "En_dirtyStore",
                            !.tmp = driverStates[main.driver].registersToUpdate]
    /\ UNCHANGED << numTmc2660Drivers, menu, written, driversPowered, driverStates, currentDriver, hwVars,
                    isr, frameHist, powerHist, callHist >>
    /\ lastCall' = NoCall

\* line 399: the store of registersToUpdate |= 1u << ChopperControl; Enable returns
EnableDirtyStore ==
    /\ MainRuns
    /\ main.pc = "En_dirtyStore"
    /\ driverStates' = [driverStates EXCEPT ![main.driver].registersToUpdate =
                            BitOr(main.tmp, Shl(1, ChopperControl))]
    /\ main' = MainIdle
    /\ justEnabled' = IF main.en THEN main.driver ELSE nullptr
    /\ lastCall' = [NoCall EXCEPT !.op = "Enable", !.driver = main.driver]
    /\ UNCHANGED << numTmc2660Drivers, menu, written, driversPowered, currentDriver, hwVars, isr,
                    frameHist, powerHist, expected, owed, loadSeen >>

EnableSteps ==
    \/ EnableStoreAcc
    \/ EnableLoadLast
    \/ EnableStoreLast
    \/ EnableWrite
    \/ EnableDirtyLoad
    \/ EnableDirtyStore

\* GetAccumulatedStatus(d, bitsToKeep): the snapshot and the clearing happen
\* with interrupts disabled
GetAccumulatedStatus(d, bitsToKeep) ==
    /\ MainRuns
    /\ main.pc = "idle"
    /\ LET ds == driverStates[d]
           after == ReadAccumulatedStatus(ds, bitsToKeep)
       IN /\ driverStates' = [driverStates EXCEPT ![d] = after]
          /\ lastCall' = [NoCall EXCEPT !.op = "ReadAccumulatedStatus", !.driver = d,
                                        !.arg = bitsToKeep,
                                        !.ret = ReadAccumulatedStatusResult(ds),
                                        !.old = ds.accumulatedStatus,
                                        !.left = after.accumulatedStatus,
                                        !.expected = expected[d],
                                        !.owed = owed[d],
                                        !.enabled = ds.enabled]
          /\ expected' = [expected EXCEPT ![d] = after.accumulatedStatus]
    /\ owed' = [owed EXCEPT ![d] = 0]
    /\ justEnabled' = nullptr
    /\ UNCHANGED << numTmc2660Drivers, menu, written, driversPowered, currentDriver, hwVars, main, isr,
                    frameHist, powerHist, loadSeen >>

\* GetLiveStatus(d)
GetLiveStatus(d) ==
    /\ MainRuns
    /\ main.pc = "idle"
    /\ lastCall' = [NoCall EXCEPT !.op = "ReadLiveStatus", !.driver = d,
                                  !.ret = ReadLiveStatus(driverStates[d]),
                                  !.old = driverStates[d].lastReadStatus,
                                  !.enabled = driverStates[d].enabled,
                                  !.afterEnable = (justEnabled = d)]
    /\ justEnabled' = nullptr
    /\ UNCHANGED << numTmc2660Drivers, menu, written, driversPowered, driverStates, currentDriver, hwVars,
                    main, isr, frameHist, powerHist, expected, owed, loadSeen >>

\* the two stores of ResetLoadRegisters; the members are not volatile, so the
\* build may emit them in either order
ResetOrders == {"minFirst", "maxFirst"}

\* one store of ResetLoadRegisters: line 195 or line 196
StoreLoadRegister(ds, which) ==
    IF which = "min" THEN [ds EXCEPT !.minSgLoadRegister = 1023]
    ELSE [ds EXCEPT !.maxSgLoadRegister = 0]

\* AppendDriverStatus(d), lines 467-503: the status flags and the extremes are
\* read and reported
AppendBegin(d, order) ==
    /\ MainRuns
    /\ main.pc = "idle"
    /\ main' = [MainIdle EXCEPT !.pc = "Ap_first", !.driver = d,
                                !.tmp = IF order = "minFirst" THEN 0 ELSE 1]
    /\ justEnabled' = nullptr
    /\ lastCall' = NoCall
    /\ UNCHANGED << numTmc2660Drivers, menu, written, driversPowered, driverStates, currentDriver, hwVars,
                    isr, frameHist, powerHist, expected, owed, loadSeen >>

\* line 504, ResetLoadRegisters: the first store; the reset begins
AppendFirst ==
    /\ MainRuns
    /\ main.pc = "Ap_first"
    /\ driverStates' = [driverStates EXCEPT ![main.driver] =
                            StoreLoadRegister(@, IF main.tmp = 0 THEN "min" ELSE "max")]
    /\ loadSeen' = [e \in DOMAIN loadSeen |-> IF e = main.driver THEN {} ELSE loadSeen[e]]
    /\ main' = [main EXCEPT !.pc = "Ap_second"]
    /\ lastCall' = NoCall
    /\ UNCHANGED << numTmc2660Drivers, menu, written, driversPowered, currentDriver, hwVars, isr,
                    frameHist, powerHist, expected, owed, justEnabled >>

\* ResetLoadRegisters: the second store; AppendDriverStatus returns
AppendSecond ==
    /\ MainRuns
    /\ main.pc = "Ap_second"
    /\ driverStates' = [driverStates EXCEPT ![main.driver] =
                            StoreLoadRegister(@, IF main.tmp = 0 THEN "max" ELSE "min")]
    /\ main' = MainIdle
    /\ lastCall' = [NoCall EXCEPT !.op = "AppendDriverStatus", !.driver = main.driver]
    /\ UNCHANGED << numTmc2660Drivers, menu, written, driversPowered, currentDriver, hwVars, isr,
                    frameHist, powerHist, callHist >>

----------------------------------------------------------------------------
(* The polling ring: Spin, TurnDriversOff and the SPI handler *)

\* inputs of the ring specification: the drivers answer status 0, no axis steps
RingReplies == {<< WireWord(0), 0 >>}

Init ==
    SmartDriversInit(NumRingDrivers) /\ phase = "off" /\ menu = MenuConstructed /\ loadSeen = NoLoads /\ NotTraced /\ lastCall = NoCall

SpinSteps ==
    \/ SpinStore
    \/ SpinEnable
    \/ SpinWriteAll
    \/ SpinCheck
    \/ StartPublish
    \/ StartSelect
    \/ StartClearAndKick
    \/ SpinDisable

Next ==
    \/ \E powered \in BOOLEAN : SpinBegin(powered)
    \/ SpinSteps
    \/ TurnDriversOff
    \/ HandlerEntry(RingReplies)
    \/ HandlerNext
    \/ HandlerStop

Spec == Init /\ [][Next]_vars

\* the ring with its scheduling: a frame in flight completes and raises the
\* interrupt, the handler runs to its end, and a Spin call that has begun
\* goes on to its last statement
FairSpec ==
    /\ Init
    /\ [][Next]_vars
    /\ WF_vars(HandlerEntry(RingReplies))
    /\ WF_vars(HandlerNext)
    /\ WF_vars(HandlerStop)
    /\ WF_vars(SpinSteps)

\* the ring, with the registers re-sent after a power loss followed
InitResync ==
    SmartDriversInit(NumRingDrivers) /\ phase = "none" /\ menu = MenuConstructed /\ loadSeen = NoLoads /\ NotTraced /\ lastCall = NoCall

SpecResync == InitResync /\ [][Next]_vars


----------------------------------------------------------------------------
(* Status: the ring with drivers that report alarms, and the calls that *)
(* read and clear the status words                                     *)

\* the state Init and then Spin(true), run without interruption, leave: power
\* on, every register dirty, the frame for register 0 of driver 0 in flight
PoweredUp(numTmcDrivers) ==
    /\ numTmc2660Drivers = numTmcDrivers
    /\ driversPowered = TRUE
    /\ driverStates =
          [d \in 0 .. (numTmcDrivers - 1) |->
              IF d = 0
              THEN [WriteAll(TmcInit(d, d)) EXCEPT
                        !.registersToUpdate = ClearSelected(UpdateAllRegisters)]
              ELSE WriteAll(TmcInit(d, d))]
    /\ currentDriver = 0
    /\ enablePin = "LOW"
    /\ pinLevel = [d \in 0 .. (numTmcDrivers - 1) |-> IF d = 0 THEN "LOW" ELSE "HIGH"]
    /\ spiDataOut = SetupDMA(TmcInit(0, 0).registers[SelectRegister(UpdateAllRegisters)])
    /\ endrxEnabled = TRUE
    /\ nvicEnabled = TRUE
    /\ frameInFlight = TRUE
    /\ main = MainIdle
    /\ isr = IsrIdle
    /\ lastFrame = [drv |-> 0, reg |-> SelectRegister(UpdateAllRegisters), keepAlive |-> FALSE]
    /\ hadFrame = {0}
    /\ framesSince = [i \in 0 .. (numTmcDrivers - 1) |->
                        [j \in 0 .. (numTmcDrivers - 1) |->
                            IF i # 0 /\ j = 0 THEN 1 ELSE 0]]
    /\ firstFrames = << << 0, SelectRegister(UpdateAllRegisters), FALSE >> >>
    /\ spunUp = TRUE
    /\ undisturbed = TRUE
    /\ phase = "off"
    /\ sentSince = [d \in 0 .. (numTmcDrivers - 1) |-> {}]
    /\ expected = [d \in 0 .. (numTmcDrivers - 1) |-> 0]
    /\ owed = [d \in 0 .. (numTmcDrivers - 1) |-> 0]
    /\ justEnabled = nullptr
    /\ lastCall = NoCall

\* a status word with the load register at 1
StatusWord(flags) == BitOr(flags, Shl(1, TMC_RR_SG_LOAD_SHIFT))

\* what the drivers answer in the status specification: an over-temperature
\* alarm while the axis does not step, a stall while it steps fast
StatusReplies ==
    { << WireWord(Shl(StatusWord(TMC_RR_OT), 4)), 0 >>,
      << WireWord(Shl(StatusWord(TMC_RR_SG), 4)), 1 >> }

StatusKeeps == {0, BitOr(TMC_RR_SG, TMC_RR_OT), StatusBits}

InitStatus == PoweredUp(NumStatusDrivers) /\ menu = MenuConstructed /\ loadSeen = NoLoads /\ NotTraced

NextStatus ==
    \/ TurnDriversOff
    \/ HandlerEntry(StatusReplies)
    \/ HandlerNext
    \/ HandlerStop
    \/ \E d \in Drivers, en \in BOOLEAN : EnableBegin(d, en)
    \/ EnableSteps
    \/ \E d \in Drivers, k \in StatusKeeps : GetAccumulatedStatus(d, k)
    \/ \E d \in Drivers : GetLiveStatus(d)

SpecStatus == InitStatus /\ [][NextStatus]_vars


----------------------------------------------------------------------------
(* Load: the ring with drivers that report StallGuard loads at several step *)
(* intervals, and AppendDriverStatus resetting the extremes                *)

NumLoadDrivers == 1

\* the loads the drivers report
LowLoad == 0
MidLoad == 5
HighLoad == 9

\* a status word with flags and a load
LoadWord(flags, load) == BitOr(flags, Shl(load, TMC_RR_SG_LOAD_SHIFT))

\* the step interval at the upper edge of the stall window after Init
EdgeInterval == StepClockRate \div DefaultMinimumStepsPerSecond

\* what a driver answers and the step interval of its axis at that moment:
\* a stall at the edge of the window, just outside it and with the axis at
\* rest, and no stall inside the window
LoadInputs ==
    { << LoadWord(TMC_RR_SG, LowLoad), EdgeInterval >>,
      << LoadWord(TMC_RR_SG, MidLoad), EdgeInterval + 1 >>,
      << LoadWord(TMC_RR_SG, MidLoad), 0 >>,
      << LoadWord(0, HighLoad), 1 >> }

\* the 20-bit status arrives in the upper bits of the 24-bit frame
LoadReplies == { << WireWord(Shl(in[1], 4)), in[2] >> : in \in LoadInputs }

InitLoad ==
    /\ PoweredUp(NumLoadDrivers)
    /\ menu = MenuConstructed /\ loadSeen = [d \in 0 .. (NumLoadDrivers - 1) |-> {}]
    /\ NotTraced

NextLoad ==
    \/ TurnDriversOff
    \/ HandlerEntry(LoadReplies)
    \/ HandlerNext
    \/ HandlerStop
    \/ \E d \in Drivers, order \in ResetOrders : AppendBegin(d, order)
    \/ AppendFirst
    \/ AppendSecond

SpecLoad == InitLoad /\ [][NextLoad]_vars


----------------------------------------------------------------------------
(* Setters: the chopper-configuration calls of the SmartDrivers interface, *)
(* each run to completion by the main thread                              *)

NumSetterDrivers == 1

\* a C++ bool as the call history records it
BoolVal(b) == IF b THEN 1 ELSE 0

\* a main-thread call that only changes the record of one driver
SetterCall(op, driver, arg, after, ret) ==
    /\ MainRuns
    /\ main.pc = "idle"
    /\ driverStates' = IF driver < numTmc2660Drivers
                       THEN [driverStates EXCEPT ![driver] = after]
                       ELSE driverStates
    /\ lastCall' = [NoCall EXCEPT !.op = op, !.driver = driver, !.arg = arg, !.ret = ret]
    /\ NoteSetter
    /\ justEnabled' = nullptr
    /\ UNCHANGED << numTmc2660Drivers, menu, written, driversPowered, currentDriver, hwVars, main, isr,
                    ringHist, sentSince, phase, spunUp, expected, owed, loadSeen >>

\* SmartDrivers::EnableDrive, run to completion
SmartDrivers_EnableDrive(driver, en) ==
    SetterCall("Enable", driver, BoolVal(en),
               IF driver < numTmc2660Drivers THEN Enable(driverStates[driver], en)
               ELSE nullptr,
               0)

SmartDrivers_SetChopperControlRegister(driver, ccr) ==
    SetterCall("SetChopConf", driver, ccr,
               IF driver < numTmc2660Drivers THEN SetChopConf(driverStates[driver], ccr)
               ELSE nullptr,
               BoolVal(driver < numTmc2660Drivers /\ ChopConfLegal(ccr)))

SmartDrivers_SetOffTime(driver, offTime) ==
    SetterCall("SetOffTime", driver, offTime,
               IF driver < numTmc2660Drivers THEN SetOffTime(driverStates[driver], offTime)
               ELSE nullptr,
               BoolVal(driver < numTmc2660Drivers
                       /\ SetOffTimeResult(driverStates[driver], offTime)))

\* the mode is passed as an unsigned int; the history records it by name
SmartDrivers_SetDriverMode(driver, mode) ==
    /\ MainRuns
    /\ main.pc = "idle"
    /\ driverStates' = IF driver < numTmc2660Drivers
                       THEN [driverStates EXCEPT ![driver] = SetDriverMode(@, mode)]
                       ELSE driverStates
    /\ lastCall' = [NoCall EXCEPT !.op = "SetDriverMode", !.driver = driver, !.mode = mode,
                                  !.ret = BoolVal(driver < numTmc2660Drivers
                                                  /\ SetDriverModeResult(driverStates[driver],
                                                                         mode))]
    /\ NoteSetter
    /\ justEnabled' = nullptr
    /\ UNCHANGED << numTmc2660Drivers, menu, written, driversPowered, currentDriver, hwVars, main, isr,
                    ringHist, sentSince, phase, spunUp, expected, owed, loadSeen >>

\* SmartDrivers::SetMicrostepping, lines 747-753: the number of times the loop
\* halves uSteps, and the value it is left with
RECURSIVE MicrostepShift(_)
MicrostepShift(uSteps) ==
    IF uSteps % 2 = 0 THEN 1 + MicrostepShift(uSteps \div 2) ELSE 0

RECURSIVE MicrostepOddPart(_)
MicrostepOddPart(uSteps) ==
    IF uSteps % 2 = 0 THEN MicrostepOddPart(uSteps \div 2) ELSE uSteps

\* variant: a shift of 9 is accepted too
MicrosteppingAccepted_Wide(microsteps) ==
    /\ microsteps > 0
    /\ MicrostepOddPart(microsteps) = 1
    /\ MicrostepShift(microsteps) <= 9

\* lines 744 and 754: the microstepping is a power of two up to 256
MicrosteppingAccepted(microsteps) ==
    /\ microsteps > 0
    /\ MicrostepOddPart(microsteps) = 1
    /\ MicrostepShift(microsteps) <= 8

SmartDrivers_SetMicrostepping(driver, microsteps, interpolate) ==
    LET accepted == driver < numTmc2660Drivers /\ MicrosteppingAccepted(microsteps)
    IN /\ MainRuns
       /\ main.pc = "idle"
       /\ driverStates' =
             IF accepted
             THEN [driverStates EXCEPT ![driver] =
                      SetMicrostepping(@, MicrostepShift(microsteps), interpolate)]
             ELSE driverStates
       /\ lastCall' = [NoCall EXCEPT !.op = "SetMicrostepping", !.driver = driver,
                                     !.arg = microsteps, !.interpolate = interpolate,
                                     !.ret = BoolVal(accepted)]
       /\ NoteSetter
       /\ justEnabled' = nullptr
       /\ UNCHANGED << numTmc2660Drivers, menu, written, driversPowered, currentDriver, hwVars, main, isr,
                       ringHist, sentSince, phase, spunUp, expected, owed, loadSeen >>

\* a main-thread call that changes nothing and returns a value, a flag and a
\* driver mode
ReadCall(op, driver, ret, flag, mode) ==
    /\ MainRuns
    /\ main.pc = "idle"
    /\ lastCall' = [NoCall EXCEPT !.op = op, !.driver = driver, !.ret = ret,
                                  !.interpolate = flag, !.mode = mode]
    /\ justEnabled' = nullptr
    /\ UNCHANGED << numTmc2660Drivers, menu, written, driversPowered, driverStates, currentDriver, hwVars,
                    main, isr, frameHist, powerHist, expected, owed, loadSeen >>

\* a main-thread call that changes nothing and returns a value and a flag
GetterCall(op, driver, ret, flag) == ReadCall(op, driver, ret, flag, "none")

\* variant: microstepping 0 is reported for a driver that does not exist
NoDriverMicrostepping_Zero == << 0, FALSE >>

\* lines 770-771: what GetMicrostepping reports for a driver that does not exist
NoDriverMicrostepping == << 1, FALSE >>

SmartDrivers_GetMicrostepping(driver) ==
    LET got == IF driver < numTmc2660Drivers THEN GetMicrostepping(driverStates[driver])
               ELSE NoDriverMicrostepping
    IN GetterCall("GetMicrostepping", driver, got[1], got[2])

SmartDrivers_GetChopperControlRegister(driver) ==
    GetterCall("GetChopConf", driver,
               IF driver < numTmc2660Drivers THEN GetChopConf(driverStates[driver]) ELSE 0,
               FALSE)

SmartDrivers_GetOffTime(driver) ==
    GetterCall("GetOffTime", driver,
               IF driver < numTmc2660Drivers THEN GetOffTime(driverStates[driver]) ELSE 0,
               FALSE)

\* SmartDrivers::GetDriverMode; the mode returned is recorded by name
SmartDrivers_GetDriverMode(driver) ==
    ReadCall("GetDriverMode", driver, 0, FALSE,
             IF driver < numTmc2660Drivers THEN GetDriverMode(driverStates[driver])
             ELSE "unknown")

SmartDrivers_SetAxisNumber(driver, axisNumber) ==
    SetterCall("SetAxisNumber", driver, axisNumber,
               IF driver < numTmc2660Drivers
               THEN SetAxisNumber(driverStates[driver], axisNumber) ELSE nullptr,
               0)

SmartDrivers_SetCurrent(driver, current) ==
    SetterCall("SetCurrent", driver, current,
               IF driver < numTmc2660Drivers
               THEN SetCurrent(driverStates[driver], current) ELSE nullptr,
               0)

SmartDrivers_SetStallThreshold(driver, sgThreshold) ==
    SetterCall("SetStallThreshold", driver, sgThreshold,
               IF driver < numTmc2660Drivers
               THEN SetStallDetectThreshold(driverStates[driver], sgThreshold) ELSE nullptr,
               0)

SmartDrivers_SetStallFilter(driver, sgFilter) ==
    SetterCall("SetStallFilter", driver, BoolVal(sgFilter),
               IF driver < numTmc2660Drivers
               THEN SetStallDetectFilter(driverStates[driver], sgFilter) ELSE nullptr,
               0)

SmartDrivers_SetStallMinimumStepsPerSecond(driver, stepsPerSecond) ==
    SetterCall("SetStallMinimumStepsPerSecond", driver, stepsPerSecond,
               IF driver < numTmc2660Drivers
               THEN SetStallMinimumStepsPerSecond(driverStates[driver], stepsPerSecond)
               ELSE nullptr,
               0)

SmartDrivers_SetCoolStep(drive, coolStepConfig) ==
    SetterCall("SetCoolStep", drive, coolStepConfig,
               IF drive < numTmc2660Drivers
               THEN SetCoolStep(driverStates[drive], coolStepConfig) ELSE nullptr,
               0)

\* SmartDrivers::AppendStallConfig: text is appended for a driver that exists
\* the quotient StepClockRate/maxStallStepInterval that line 461 prints; a
\* division by zero is undefined: the hardware divide gives 0, or raises a
\* fault and nothing is printed (shown as -1)
StepsPerSecondShown(ds) ==
    IF ds.maxStallStepInterval = 0 THEN {0, -1}
    ELSE {StepClockRate \div ds.maxStallStepInterval}

\* ret is the threshold and old the steps per second that are printed
SmartDrivers_AppendStallConfig(driver) ==
    \E shown \in (IF driver < numTmc2660Drivers
                  THEN StepsPerSecondShown(driverStates[driver]) ELSE {0}) :
        /\ MainRuns
        /\ main.pc = "idle"
        /\ lastCall' = [NoCall EXCEPT !.op = "AppendStallConfig", !.driver = driver,
                                      !.ret = IF driver < numTmc2660Drivers
                                              THEN StallThresholdShown(driverStates[driver])
                                              ELSE 0,
                                      !.old = shown,
                                      !.interpolate = driver < numTmc2660Drivers]
        /\ justEnabled' = nullptr
        /\ UNCHANGED << numTmc2660Drivers, menu, written, driversPowered, driverStates,
                        currentDriver, hwVars, main, isr, frameHist, powerHist, expected,
                        owed, loadSeen >>

\* SmartDrivers::GetStandstillCurrentPercent: not supported, always 100
SmartDrivers_GetStandstillCurrentPercent(driver) ==
    GetterCall("GetStandstillCurrentPercent", driver, 100, FALSE)

\* SmartDrivers::SetStandstillCurrentPercent: not supported, does nothing
SmartDrivers_SetStandstillCurrentPercent(driver, percent) ==
    GetterCall("SetStandstillCurrentPercent", driver, 0, FALSE)

\* SmartDrivers::GetLiveStatus, SmartDrivers::GetAccumulatedStatus and
\* SmartDrivers::AppendDriverStatus for any driver number
SmartDrivers_GetLiveStatus(driver) ==
    IF driver < numTmc2660Drivers THEN GetLiveStatus(driver)
    ELSE GetterCall("ReadLiveStatus", driver, 0, FALSE)

SmartDrivers_GetAccumulatedStatus(driver, bitsToKeep) ==
    IF driver < numTmc2660Drivers THEN GetAccumulatedStatus(driver, bitsToKeep)
    ELSE GetterCall("ReadAccumulatedStatus", driver, 0, FALSE)

SmartDrivers_AppendDriverStatus(driver, order) ==
    IF driver < numTmc2660Drivers THEN AppendBegin(driver, order)
    ELSE GetterCall("AppendDriverStatus", driver, 0, FALSE)

\* driver numbers a caller may pass: every driver and one past the last
SetterDrivers == 0 .. numTmc2660Drivers

\* chopper control words: off time 0, off time 1 with blank time 0, off time
\* 1 with a blank time, off time 15 with bits above bit 16
SetterChopConfs ==
    { 0,
      TMC_CHOPCONF_TOFF(1),
      BitOr(TMC_CHOPCONF_TBL(2), TMC_CHOPCONF_TOFF(1)),
      BitOr(TMC_REG_DRVCONF, BitOr(TMC_CHOPCONF_TBL(1), TMC_CHOPCONF_TOFF(15))) }

SetterOffTimes == {0, 15, 16}

SetterModes == DriverModes \cup {"unknown"}

InitSetters ==
    SmartDriversInit(NumSetterDrivers) /\ phase = "off" /\ menu = MenuConstructed /\ loadSeen = NoLoads /\ NotTraced /\ lastCall = NoCall

NextSetters ==
    \/ \E d \in SetterDrivers, en \in BOOLEAN : SmartDrivers_EnableDrive(d, en)
    \/ \E d \in SetterDrivers, ccr \in SetterChopConfs :
            SmartDrivers_SetChopperControlRegister(d, ccr)
    \/ \E d \in SetterDrivers, offTime \in SetterOffTimes : SmartDrivers_SetOffTime(d, offTime)
    \/ \E d \in SetterDrivers, mode \in SetterModes : SmartDrivers_SetDriverMode(d, mode)
    \/ \E d \in SetterDrivers : SmartDrivers_GetDriverMode(d)

SpecSetters == InitSetters /\ [][NextSetters]_vars


----------------------------------------------------------------------------
(* Microstepping: SetMicrostepping and GetMicrostepping with the ring running *)

NumMicrostepDrivers == 1

\* microstepping values a caller may pass: none, the smallest, the default,
\* an even number that is no power of two, the largest, and the next power
\* of two
Microsteps == {0, 1, 16, 48, 256, 512}

InitMicrostep == PoweredUp(NumMicrostepDrivers) /\ menu = MenuConstructed /\ loadSeen = NoLoads /\ NotTraced

NextMicrostep ==
    \/ HandlerEntry(RingReplies)
    \/ HandlerNext
    \/ \E d \in SetterDrivers, microsteps \in Microsteps, interpolate \in BOOLEAN :
            SmartDrivers_SetMicrostepping(d, microsteps, interpolate)
    \/ \E d \in SetterDrivers : SmartDrivers_GetMicrostepping(d)

SpecMicrostep == InitMicrostep /\ [][NextMicrostep]_vars


----------------------------------------------------------------------------
(* Chopper: Enable and the calls that set and read the chopper control *)
(* register, with the ring running                                     *)

NumChopperDrivers == 1

\* chopper control words: off time 0; off time 1 with blank time 0; off time
\* 2 with blank time 0; off time 1 with a blank time; off time 15 with bits
\* above bit 16
ChopperConfs ==
    { 0,
      TMC_CHOPCONF_TOFF(1),
      TMC_CHOPCONF_TOFF(2),
      BitOr(TMC_CHOPCONF_TBL(2), TMC_CHOPCONF_TOFF(1)),
      BitOr(TMC_REG_DRVCONF, BitOr(TMC_CHOPCONF_TBL(1), TMC_CHOPCONF_TOFF(15))) }

\* off times: none, the smallest, the largest, and one above the largest
\* whose low four bits are a legal off time
ChopperOffTimes == {0, 1, 15, 17}

InitChopper == PoweredUp(NumChopperDrivers) /\ menu = MenuConstructed /\ loadSeen = NoLoads /\ NotTraced

NextChopper ==
    \/ HandlerEntry(RingReplies)
    \/ HandlerNext
    \/ \E d \in SetterDrivers, en \in BOOLEAN : SmartDrivers_EnableDrive(d, en)
    \/ \E d \in SetterDrivers, ccr \in ChopperConfs :
            SmartDrivers_SetChopperControlRegister(d, ccr)
    \/ \E d \in SetterDrivers, offTime \in ChopperOffTimes : SmartDrivers_SetOffTime(d, offTime)
    \/ \E d \in SetterDrivers : SmartDrivers_GetChopperControlRegister(d)
    \/ \E d \in SetterDrivers : SmartDrivers_GetOffTime(d)

SpecChopper == InitChopper /\ [][NextChopper]_vars


----------------------------------------------------------------------------
(* Refusal: the four setters that return a result, each with values it *)
(* refuses and one it accepts, with the ring running                    *)

NumRefusalDrivers == 1

\* chopper control words: off time 0, off time 1 with blank time 0, and a
\* legal one
RefusalChopConfs ==
    { 0, TMC_CHOPCONF_TOFF(1), BitOr(TMC_CHOPCONF_TBL(2), TMC_CHOPCONF_TOFF(1)) }

RefusalOffTimes == {0, 15, 17}

RefusalModes == {"unknown", "constantOffTime"}

\* microstepping values: none, no power of two, above the largest, the largest
RefusalMicrosteps == {0, 48, 512, 256}

InitRefusal == PoweredUp(NumRefusalDrivers) /\ menu = MenuConstructed /\ loadSeen = NoLoads /\ NotTraced

NextRefusal ==
    \/ HandlerEntry(RingReplies)
    \/ HandlerNext
    \/ \E d \in Drivers, en \in BOOLEAN : SmartDrivers_EnableDrive(d, en)
    \/ \E d \in SetterDrivers, ccr \in RefusalChopConfs :
            SmartDrivers_SetChopperControlRegister(d, ccr)
    \/ \E d \in SetterDrivers, offTime \in RefusalOffTimes : SmartDrivers_SetOffTime(d, offTime)
    \/ \E d \in SetterDrivers, mode \in RefusalModes : SmartDrivers_SetDriverMode(d, mode)
    \/ \E d \in SetterDrivers, microsteps \in RefusalMicrosteps :
            SmartDrivers_SetMicrostepping(d, microsteps, FALSE)

SpecRefusal == InitRefusal /\ [][NextRefusal]_vars


----------------------------------------------------------------------------
(* Index: every call of the SmartDrivers interface with a driver number *)
(* that does not exist, and a few with one that does, with the ring     *)
(* running                                                              *)

NumIndexDrivers == 1

\* driver numbers that do not exist: one past the last and the one after
NoSuchDrivers == { numTmc2660Drivers, numTmc2660Drivers + 1 }

\* the drivers answer with an over-temperature alarm, the axes at rest
IndexReplies == { << WireWord(Shl(StatusWord(TMC_RR_OT), 4)), 0 >> }

\* a legal chopper control word other than the default
IndexChopConf == BitOr(TMC_CHOPCONF_TBL(1), TMC_CHOPCONF_TOFF(15))

InitIndex == PoweredUp(NumIndexDrivers) /\ menu = MenuConstructed /\ loadSeen = NoLoads /\ NotTraced

NextIndex ==
    \/ HandlerEntry(IndexReplies)
    \/ HandlerNext
    \/ \E d \in SetterDrivers, en \in BOOLEAN : SmartDrivers_EnableDrive(d, en)
    \/ \E d \in SetterDrivers : SmartDrivers_SetMicrostepping(d, 256, FALSE)
    \/ \E d \in SetterDrivers : SmartDrivers_GetMicrostepping(d)
    \/ \E d \in SetterDrivers : SmartDrivers_GetLiveStatus(d)
    \/ \E d \in NoSuchDrivers : SmartDrivers_GetAccumulatedStatus(d, 0)
    \/ \E d \in NoSuchDrivers : SmartDrivers_SetChopperControlRegister(d, IndexChopConf)
    \/ \E d \in NoSuchDrivers : SmartDrivers_GetChopperControlRegister(d)
    \/ \E d \in NoSuchDrivers : SmartDrivers_SetOffTime(d, 15)
    \/ \E d \in NoSuchDrivers : SmartDrivers_GetOffTime(d)
    \/ \E d \in NoSuchDrivers : SmartDrivers_SetDriverMode(d, "constantOffTime")
    \/ \E d \in NoSuchDrivers : SmartDrivers_GetDriverMode(d)
    \/ \E d \in NoSuchDrivers : SmartDrivers_SetAxisNumber(d, 1)
    \/ \E d \in NoSuchDrivers : SmartDrivers_SetCurrent(d, 10 * MaximumMotorCurrent)
    \/ \E d \in NoSuchDrivers : SmartDrivers_SetStallThreshold(d, 63)
    \/ \E d \in NoSuchDrivers : SmartDrivers_SetStallFilter(d, TRUE)
    \/ \E d \in NoSuchDrivers : SmartDrivers_SetStallMinimumStepsPerSecond(d, 1)
    \/ \E d \in NoSuchDrivers : SmartDrivers_SetCoolStep(d, 1)
    \/ \E d \in NoSuchDrivers : SmartDrivers_AppendStallConfig(d)
    \/ \E d \in NoSuchDrivers : SmartDrivers_AppendDriverStatus(d, "minFirst")
    \/ \E d \in NoSuchDrivers : SmartDrivers_GetStandstillCurrentPercent(d)
    \/ \E d \in NoSuchDrivers : SmartDrivers_SetStandstillCurrentPercent(d, 100)

SpecIndex == InitIndex /\ [][NextIndex]_vars


----------------------------------------------------------------------------
(* StallGuard: the calls that write the stallGuard and current register, *)
(* with the ring running                                                 *)

NumStallDrivers == 1

\* motor currents in tenths of a milliampere: negative, none, just below the
\* floor, the floor, the last to encode as 0 and the first to encode as 1,
\* the ceiling and just above it
Currents == {-10, 0, 999, 1000, 1519, 1520, 24000, 24001}

\* stall thresholds: below the range, its ends, around zero and above it
StallThresholds == {-100, -64, -1, 0, 63, 100}

InitStall == PoweredUp(NumStallDrivers) /\ menu = MenuConstructed /\ loadSeen = NoLoads /\ NotTraced

NextStall ==
    \/ HandlerEntry(RingReplies)
    \/ HandlerNext
    \/ \E d \in SetterDrivers, current \in Currents : SmartDrivers_SetCurrent(d, current)
    \/ \E d \in SetterDrivers, sgThreshold \in StallThresholds :
            SmartDrivers_SetStallThreshold(d, sgThreshold)
    \/ \E d \in SetterDrivers, sgFilter \in BOOLEAN : SmartDrivers_SetStallFilter(d, sgFilter)
    \/ \E d \in SetterDrivers : SmartDrivers_AppendStallConfig(d)

SpecStall == InitStall /\ [][NextStall]_vars


----------------------------------------------------------------------------
(* Boot: SmartDrivers::Init with any number of drivers, then Spin,        *)
(* TurnDriversOff, EnableDrive and the SPI handler                        *)

\* the size of driverStates[]; declared outside the sources
MaxSmartDrivers == 2

\* variant: the number of drivers is taken as given
ClampedCount_AsGiven(numTmcDrivers) == numTmcDrivers

\* line 653: min<size_t>(numTmcDrivers, MaxSmartDrivers)
ClampedCount(numTmcDrivers) ==
    IF numTmcDrivers < MaxSmartDrivers THEN numTmcDrivers ELSE MaxSmartDrivers

\* the numbers of drivers Init is called with: none, up to the maximum and
\* one more
InitCounts == 0 .. (MaxSmartDrivers + 1)

InitBoot ==
    \E numTmcDrivers \in InitCounts :
        /\ SmartDriversInit(ClampedCount(numTmcDrivers))
        /\ phase = "off"
        /\ menu = MenuConstructed /\ loadSeen = NoLoads /\ NotTraced
        /\ lastCall = [NoCall EXCEPT !.op = "Init", !.arg = numTmcDrivers]

NextBoot ==
    \/ \E powered \in BOOLEAN : SpinBegin(powered)
    \/ SpinSteps
    \/ TurnDriversOff
    \/ HandlerEntry(RingReplies)
    \/ HandlerNext
    \/ HandlerStop
    \/ \E d \in SetterDrivers, en \in BOOLEAN : SmartDrivers_EnableDrive(d, en)

SpecBoot == InitBoot /\ [][NextBoot]_vars


----------------------------------------------------------------------------
(* Fields: the setters of the register fields, each called with the others' *)
(* fields set to various values, while the ring drains the dirty masks      *)

NumFieldDrivers == 1

\* tenths of a milliampere: the top of the range
FieldCurrents == {10 * MaximumMotorCurrent}

FieldThresholds == {-64, 63}

\* microsteps and interpolation
FieldMicrosteps == {<< 1, TRUE >>, << 256, FALSE >>}

\* a uint16_t with all bits set
FieldCoolStep == 65535

InitFields == PoweredUp(NumFieldDrivers) /\ menu = MenuConstructed /\ loadSeen = NoLoads /\ NotTraced

NextFields ==
    \/ HandlerEntry(RingReplies)
    \/ HandlerNext
    \/ \E d \in SetterDrivers, current \in FieldCurrents : SmartDrivers_SetCurrent(d, current)
    \/ \E d \in SetterDrivers, sgThreshold \in FieldThresholds :
            SmartDrivers_SetStallThreshold(d, sgThreshold)
    \/ \E d \in SetterDrivers, sgFilter \in BOOLEAN : SmartDrivers_SetStallFilter(d, sgFilter)
    \/ \E d \in SetterDrivers, m \in FieldMicrosteps :
            SmartDrivers_SetMicrostepping(d, m[1], m[2])
    \/ \E d \in SetterDrivers : SmartDrivers_SetCoolStep(d, FieldCoolStep)

SpecFields == InitFields /\ [][NextFields]_vars


----------------------------------------------------------------------------
(* Address: every call that writes a shadow register, from Init on, with *)
(* arguments that have bits set outside the field they are meant for     *)

NumAddressDrivers == 1

\* chopper words with all 20 bits set, with another register's address, and
\* one that is refused
AddressChopConfs ==
    { 1048575,
      BitOr(TMC_REG_DRVCONF, BitOr(TMC_CHOPCONF_TBL(1), TMC_CHOPCONF_TOFF(2))),
      0 }

AddressOffTimes == {15, 16}

InitAddress ==
    /\ SmartDriversInit(NumAddressDrivers)
    /\ phase = "off"
    /\ menu = MenuConstructed /\ loadSeen = NoLoads /\ NotTraced
    /\ lastCall = NoCall

NextAddress ==
    \/ \E d \in SetterDrivers, en \in BOOLEAN : SmartDrivers_EnableDrive(d, en)
    \/ \E d \in SetterDrivers, ccr \in AddressChopConfs :
            SmartDrivers_SetChopperControlRegister(d, ccr)
    \/ \E d \in SetterDrivers, offTime \in AddressOffTimes : SmartDrivers_SetOffTime(d, offTime)
    \/ \E d \in SetterDrivers, mode \in DriverModes : SmartDrivers_SetDriverMode(d, mode)
    \/ \E d \in SetterDrivers, current \in FieldCurrents : SmartDrivers_SetCurrent(d, current)
    \/ \E d \in SetterDrivers, sgThreshold \in FieldThresholds :
            SmartDrivers_SetStallThreshold(d, sgThreshold)
    \/ \E d \in SetterDrivers, sgFilter \in BOOLEAN : SmartDrivers_SetStallFilter(d, sgFilter)
    \/ \E d \in SetterDrivers, m \in FieldMicrosteps :
            SmartDrivers_SetMicrostepping(d, m[1], m[2])
    \/ \E d \in SetterDrivers : SmartDrivers_SetCoolStep(d, FieldCoolStep)

SpecAddress == InitAddress /\ [][NextAddress]_vars


----------------------------------------------------------------------------
(* Dirty: setters run one shared-memory access at a time while the ring *)
(* drains the dirty masks                                               *)

NumDirtyDrivers == 1

\* how many setter calls the main thread makes before it stops
MaxSetterCalls == 2

\* a setter writes its shadow word, lines 398, 424, 432-436 and 448: after is
\* the driver as the setter leaves it when nothing interrupts it; the dirty
\* mask is updated by the two steps that follow
SetterWrite(d, regNum, after) ==
    /\ MainRuns
    /\ main.pc = "idle"
    /\ Len(written) < MaxSetterCalls
    /\ driverStates' =
          [driverStates EXCEPT ![d] =
              [after EXCEPT !.registersToUpdate = driverStates[d].registersToUpdate]]
    /\ written' = Append(written, << d, regNum, after.registers[regNum] >>)
    /\ main' = [MainIdle EXCEPT !.pc = "Set_dirtyLoad", !.driver = d, !.regNum = regNum]
    /\ NoteSetter
    /\ justEnabled' = nullptr
    /\ lastCall' = NoCall
    /\ UNCHANGED << numTmc2660Drivers, menu, driversPowered, currentDriver, hwVars, isr, ringHist,
                    sentSince, phase, spunUp, expected, owed, loadSeen >>

\* lines 399, 425, 438 and 449: the load of registersToUpdate |= 1u << regNum
SetterDirtyLoad ==
    /\ MainRuns
    /\ main.pc = "Set_dirtyLoad"
    /\ main' = [main EXCEPT !.pc = "Set_dirtyStore",
                            !.tmp = driverStates[main.driver].registersToUpdate]
    /\ lastCall' = NoCall
    /\ UNCHANGED << numTmc2660Drivers, menu, written, driversPowered, driverStates, currentDriver,
                    hwVars, isr, frameHist, powerHist, callHist >>

\* variant: the store writes back the mask as it was loaded
DirtyAfterStore_Lost(loaded, regNum) == loaded

\* the mask that registersToUpdate |= 1u << regNum stores
DirtyAfterStore(loaded, regNum) == BitOr(loaded, Shl(1, regNum))

\* the store of registersToUpdate |= 1u << regNum; the setter returns
SetterDirtyStore ==
    /\ MainRuns
    /\ main.pc = "Set_dirtyStore"
    /\ driverStates' = [driverStates EXCEPT ![main.driver].registersToUpdate =
                            DirtyAfterStore(main.tmp, main.regNum)]
    /\ main' = MainIdle
    /\ lastCall' = [NoCall EXCEPT !.op = "Setter", !.driver = main.driver,
                                  !.arg = main.regNum]
    /\ UNCHANGED << numTmc2660Drivers, menu, written, driversPowered, currentDriver, hwVars, isr,
                    frameHist, powerHist, callHist >>

SetterSteps == SetterDirtyLoad \/ SetterDirtyStore

\* SetStallDetectFilter, SetCoolStep and an accepted SetChopConf, step by step
SetStallDetectFilterWrite(d, sgFilter) ==
    SetterWrite(d, StallGuardConfig, SetStallDetectFilter(driverStates[d], sgFilter))

SetCoolStepWrite(d, coolStepConfig) ==
    SetterWrite(d, SmartEnable, SetCoolStep(driverStates[d], coolStepConfig))

SetChopConfWrite(d, newVal) ==
    /\ ChopConfLegal(newVal)
    /\ SetterWrite(d, ChopperControl, SetChopConf(driverStates[d], newVal))

\* the frames followed from the state PoweredUp describes: the frame in
\* flight is the only one sent yet
SentAtPowerUp(numTmcDrivers) ==
    [d \in 0 .. (numTmcDrivers - 1) |->
        [r \in AllRegisters |->
            IF d = 0 /\ r = SelectRegister(UpdateAllRegisters)
            THEN << TmcInit(0, 0).registers[r] >>
            ELSE << >>]]

InitDirty ==
    /\ PoweredUp(NumDirtyDrivers)
    /\ menu = MenuConstructed /\ loadSeen = << >>
    /\ sent = SentAtPowerUp(NumDirtyDrivers)
    /\ written = << >>

NextDirty ==
    \/ HandlerEntry(RingReplies)
    \/ HandlerNext
    \/ \E d \in Drivers : SetStallDetectFilterWrite(d, TRUE)
    \/ \E d \in Drivers : SetCoolStepWrite(d, 1)
    \/ \E d \in Drivers : SetChopConfWrite(d, IndexChopConf)
    \/ SetterSteps

SpecDirty == InitDirty /\ [][NextDirty]_vars

\* the same with its scheduling: a frame in flight completes and raises the
\* interrupt, the handler runs to its end, and the main thread, which runs
\* whenever the handler does not, gets on with a setter it has begun (the
\* handler returns while the next frame is still being shifted out)
FairDirty ==
    /\ InitDirty
    /\ [][NextDirty]_vars
    /\ WF_vars(HandlerEntry(RingReplies))
    /\ WF_vars(HandlerNext)
    /\ SF_vars(SetterSteps)


----------------------------------------------------------------------------
(* TwoSetters: two setter calls on the stallGuard register of a driver *)
(* whose dirty mask the ring has drained                               *)

NumTwoSetterDrivers == 1

\* the threshold the second kind of call sets
TwoSettersThreshold == 5

SetStallDetectThresholdWrite(d, sgThreshold) ==
    SetterWrite(d, StallGuardConfig, SetStallDetectThreshold(driverStates[d], sgThreshold))

\* the state Init, Spin(true) and the first five passes of the ring leave
\* with drivers that answer as RingReplies says: nothing dirty, the first
\* keep-alive frame, to driver 0, in flight
DrainedRing ==
    /\ numTmc2660Drivers = NumTwoSetterDrivers
    /\ driversPowered = TRUE
    /\ driverStates = [d \in 0 .. (NumTwoSetterDrivers - 1) |->
                          [WriteAll(TmcInit(d, d)) EXCEPT !.registersToUpdate = 0]]
    /\ currentDriver = 0
    /\ enablePin = "LOW"
    /\ pinLevel = [d \in 0 .. (NumTwoSetterDrivers - 1) |-> IF d = 0 THEN "LOW" ELSE "HIGH"]
    /\ spiDataOut = SetupDMA(TmcInit(0, 0).registers[SelectRegister(0)])
    /\ endrxEnabled = TRUE
    /\ nvicEnabled = TRUE
    /\ frameInFlight = TRUE
    /\ main = MainIdle
    /\ isr = IsrIdle
    /\ lastFrame = [drv |-> 0, reg |-> SelectRegister(0), keepAlive |-> TRUE]
    /\ hadFrame = 0 .. (NumTwoSetterDrivers - 1)
    /\ framesSince = [i \in 0 .. (NumTwoSetterDrivers - 1) |->
                         [j \in 0 .. (NumTwoSetterDrivers - 1) |->
                             IF i # 0 /\ (j = 0 \/ j > i) THEN 1 ELSE 0]]
    /\ firstFrames = [k \in 1 .. (NumRegisters * NumTwoSetterDrivers) |->
                         << (k - 1) % NumTwoSetterDrivers,
                            (k - 1) \div NumTwoSetterDrivers, FALSE >>]
    /\ spunUp = TRUE
    /\ undisturbed = TRUE
    /\ phase = "off"
    /\ sentSince = [d \in 0 .. (NumTwoSetterDrivers - 1) |-> {}]
    /\ expected = [d \in 0 .. (NumTwoSetterDrivers - 1) |-> 0]
    /\ owed = [d \in 0 .. (NumTwoSetterDrivers - 1) |-> 0]
    /\ justEnabled = nullptr
    /\ lastCall = NoCall

\* the frames are counted from here on
InitTwoSetters ==
    /\ DrainedRing
    /\ menu = MenuConstructed /\ loadSeen = << >>
    /\ sent = [d \in 0 .. (NumTwoSetterDrivers - 1) |-> [r \in AllRegisters |-> << >>]]
    /\ written = << >>

NextTwoSetters ==
    \/ HandlerEntry(RingReplies)
    \/ HandlerNext
    \/ \E d \in Drivers : SetStallDetectFilterWrite(d, TRUE)
    \/ \E d \in Drivers : SetStallDetectThresholdWrite(d, TwoSettersThreshold)
    \/ SetterSteps

SpecTwoSetters == InitTwoSetters /\ [][NextTwoSetters]_vars


----------------------------------------------------------------------------
(* Legal: SetChopConf, SetOffTime and SetDriverMode from Init on, with *)
(* values they accept and values they refuse                            *)

NumLegalDrivers == 1

InitLegal ==
    /\ SmartDriversInit(NumLegalDrivers)
    /\ phase = "off"
    /\ menu = MenuConstructed /\ loadSeen = NoLoads /\ NotTraced
    /\ lastCall = NoCall

NextLegal ==
    \/ \E d \in SetterDrivers, en \in BOOLEAN : SmartDrivers_EnableDrive(d, en)
    \/ \E d \in SetterDrivers, ccr \in ChopperConfs :
            SmartDrivers_SetChopperControlRegister(d, ccr)
    \/ \E d \in SetterDrivers, offTime \in ChopperOffTimes : SmartDrivers_SetOffTime(d, offTime)
    \/ \E d \in SetterDrivers, mode \in SetterModes : SmartDrivers_SetDriverMode(d, mode)

SpecLegal == InitLegal /\ [][NextLegal]_vars


----------------------------------------------------------------------------
(* Rate: SetStallMinimumStepsPerSecond from Init on, followed by the *)
(* report that divides by the interval it stored                      *)

NumRateDrivers == 1

\* steps per second: none, one, the default, the step clock rate, one above
\* it, and a large value
RateInputs ==
    {0, 1, DefaultMinimumStepsPerSecond, StepClockRate, StepClockRate + 1, 2 ^ 30}

RateThresholds == {-64, 0, 63}

InitRate ==
    /\ SmartDriversInit(NumRateDrivers)
    /\ phase = "off"
    /\ menu = MenuConstructed /\ loadSeen = NoLoads /\ NotTraced
    /\ lastCall = NoCall

NextRate ==
    \/ \E d \in SetterDrivers, stepsPerSecond \in RateInputs :
            SmartDrivers_SetStallMinimumStepsPerSecond(d, stepsPerSecond)
    \/ \E d \in SetterDrivers, sgThreshold \in RateThresholds :
            SmartDrivers_SetStallThreshold(d, sgThreshold)
    \/ \E d \in SetterDrivers, sgFilter \in BOOLEAN : SmartDrivers_SetStallFilter(d, sgFilter)
    \/ \E d \in SetterDrivers : SmartDrivers_AppendStallConfig(d)

SpecRate == InitRate /\ [][NextRate]_vars


----------------------------------------------------------------------------
(* Menu: the LCD menu's stack of nested menu files under Load, the *)
(* commands of a clicked item, and the timeout                      *)

\* how far below zero the counter is followed
MaxMenuUnderflow == 2

\* a < b for two size_t values
SizeLess(a, b) == IF (a < 0) = (b < 0) THEN a < b ELSE b < 0

\* a - 1 in size_t arithmetic
SizeDecrement(a) == IF a = -2147483647 - 1 THEN 2147483647 ELSE a - 1

\* menu files on the card
MenuFiles == {"main", "sub"}

\* what a menu file turns out to hold: it cannot be opened or a line of it
\* is in error; it has no selectable item; it has one
ReloadOutcomes == {"error", "text", "button"}

\* filenames[i]: an index outside the array is an out-of-bounds read, which
\* is undefined
FilenameRead(m, i) ==
    IF i \in 0 .. (MaxMenuNesting - 1) THEN m.filenames[i] ELSE "undefined"

\* Reload: the menus it can leave, one for each thing the file may hold
Reload(m) ==
    { [m EXCEPT !.fname = FilenameRead(m, SizeDecrement(m.numNestedMenus)),
                !.numSelectableItems = IF outcome = "button" THEN 1 ELSE 0]
        : outcome \in ReloadOutcomes }

\* Load(filename)
MenuLoad(m, filename) ==
    IF SizeLess(m.numNestedMenus, MaxMenuNesting)
    THEN Reload([m EXCEPT !.filenames[m.numNestedMenus] = filename,
                          !.numNestedMenus = @ + 1,
                          !.loaded = TRUE])
    ELSE {m}

\* Pop()
MenuPop(m) == Reload([m EXCEPT !.numNestedMenus = SizeDecrement(@)])

\* the commands of a menu item: a G-code, "return", or the name of a menu file
MenuCommands == {"G28", "return"} \cup MenuFiles

EncoderAction_ExecuteHelper(m, cmd) ==
    IF cmd = "G28" THEN {m}
    ELSE IF cmd = "return" THEN MenuPop(m)
    ELSE MenuLoad(m, cmd)

\* EncoderAction_EnterItemHelper on an item whose command string holds cmds,
\* separated by vertical bars
RECURSIVE ExecuteAll(_, _)
ExecuteAll(ms, cmds) ==
    IF cmds = << >> THEN ms
    ELSE ExecuteAll(UNION { EncoderAction_ExecuteHelper(m, Head(cmds)) : m \in ms },
                    Tail(cmds))

\* the command strings of the items: one command or two
MenuItemCommands ==
    { << c >> : c \in MenuCommands } \cup
    { << c, "return" >> : c \in MenuCommands }

\* Display calls Load
MenuLoadCall(filename) ==
    /\ \E after \in MenuLoad(menu, filename) : menu' = after
    /\ UNCHANGED tmcVars

\* EncoderAction(0) with an item highlighted that has the commands cmds
EncoderAction(cmds) ==
    /\ menu.numSelectableItems # 0
    /\ \E after \in ExecuteAll({menu}, cmds) :
          /\ after.numNestedMenus >= -MaxMenuUnderflow
          /\ menu' = [after EXCEPT !.m_bTimeoutEnabled = TRUE]
    /\ UNCHANGED tmcVars

\* EncoderAction with nothing to select
EncoderActionIdle ==
    /\ menu.numSelectableItems = 0
    /\ menu.loaded
    /\ menu' = [menu EXCEPT !.m_bTimeoutEnabled = TRUE]
    /\ UNCHANGED tmcVars

\* Refresh when the timeout has expired
MenuRefresh ==
    /\ menu.m_bTimeoutEnabled
    /\ \E after \in MenuLoad([menu EXCEPT !.numNestedMenus = 0], "main") :
          menu' = [after EXCEPT !.m_bTimeoutEnabled = FALSE]
    /\ UNCHANGED tmcVars

NumMenuDrivers == 1

InitMenu ==
    /\ SmartDriversInit(NumMenuDrivers)
    /\ phase = "off"
    /\ menu = MenuConstructed /\ loadSeen = NoLoads /\ NotTraced
    /\ lastCall = NoCall

NextMenu ==
    \/ \E filename \in MenuFiles : MenuLoadCall(filename)
    \/ \E cmds \in MenuItemCommands : EncoderAction(cmds)
    \/ EncoderActionIdle
    \/ MenuRefresh

SpecMenu == InitMenu /\ [][NextMenu]_vars


----------------------------------------------------------------------------
(* Properties *)

\* a frame is started by this step
FrameStarted == ~frameInFlight /\ frameInFlight'

\* the off-time field of the chopper control shadow register of a driver
ShadowOffTime(ds) ==
    Shr(BitAnd(ds.registers[ChopperControl], TMC_CHOPCONF_TOFF_MASK), TMC_CHOPCONF_TOFF_SHIFT)

\* C1: for every driver, after Init and after any sequence of Enable,
\* SetChopConf, SetOffTime and SetDriverMode calls, accepted or rejected, the
\* off-time field of shadow register 2 is zero if and only if the driver is
\* not enabled.
OffTimeZeroIffDisabled ==
    \A d \in Drivers : (ShadowOffTime(driverStates[d]) = 0) <=> ~driverStates[d].enabled

\* an accepted SetOffTime(15) on a disabled driver: configured, not yet applied
OffTimeHeldBack ==
    /\ lastCall.op = "SetOffTime"
    /\ lastCall.ret = 1
    /\ lastCall.driver = 0
    /\ ~driverStates[0].enabled
    /\ GetOffTime(driverStates[0]) = 15
    /\ ShadowOffTime(driverStates[0]) = 0

\* the drivers whose chip-select pin is low
SelectedPins == {d \in Drivers : pinLevel[driverStates[d].pin] = "LOW"}

\* C2: under every interleaving of Spin, TurnDriversOff and the handler, at
\* most one chip-select pin is low: exactly the current driver's while a frame
\* is in flight, none when no frame is in flight.
OneChipSelect ==
    /\ Cardinality(SelectedPins) <= 1
    /\ frameInFlight => (currentDriver \in Drivers /\ SelectedPins = {currentDriver})
    /\ ~frameInFlight => SelectedPins = {}

\* a frame to the last driver is in flight after power was lost and restored
SecondDriverSelected ==
    /\ frameInFlight
    /\ currentDriver = numTmc2660Drivers - 1
    /\ currentDriver # 0
    /\ ~undisturbed
    /\ driversPowered

\* the frames of the ring follow each other in index order with wrap-around,
\* and a driver polled again has seen one frame go to each of the others
RoundRobinStep ==
    (FrameStarted /\ lastFrame.drv # nullptr) =>
        /\ lastFrame'.drv = (lastFrame.drv + 1) % numTmc2660Drivers
        /\ lastFrame'.drv \in hadFrame =>
              \A j \in Drivers \ {lastFrame'.drv} : framesSince[lastFrame'.drv][j] = 1

\* C3: while the drivers stay powered, the frame after driver i's goes to
\* driver (i+1) mod numDrivers, between two consecutive frames of one driver
\* every other driver receives exactly one frame, and every driver is polled
\* again and again.
RoundRobin ==
    /\ [][RoundRobinStep]_vars
    /\ \A d \in 0 .. (NumRingDrivers - 1) : []<>(~driversPowered \/ lastFrame.drv = d)

\* driver 0 is polled again after every other driver had a frame
RingWrapped ==
    /\ lastFrame.drv = 0
    /\ hadFrame = Drivers
    /\ \A j \in Drivers \ {0} : framesSince[j][0] = 1
    /\ driversPowered

\* the frame the first pass sends in position k, counted from 1
FirstPassFrame(k) ==
    << (k - 1) % numTmc2660Drivers, (k - 1) \div numTmc2660Drivers, FALSE >>

\* C4: after Init and the first Spin(true), with no setter called and no
\* power lost, the enable pin is low and the first 5*N frames carry each
\* (driver, register) pair once: registers 0,1,2,3,4 in order, one per pass.
FirstPassInOrder ==
    undisturbed =>
        /\ \A k \in 1 .. Len(firstFrames) : firstFrames[k] = FirstPassFrame(k)
        /\ Len(firstFrames) > 0 => enablePin = "LOW"

\* the first pass is complete
FirstPassDone ==
    /\ undisturbed
    /\ Len(firstFrames) = NumRegisters * numTmc2660Drivers
    /\ enablePin = "LOW"


\* C5: after a power loss followed by Spin(true), no keep-alive frame is
\* started after that Spin(true) began until every driver has re-sent all
\* five shadow registers.
ResyncBeforeKeepAlive ==
    [][(FrameStarted /\ phase = "resync") => ~lastFrame'.keepAlive]_vars

\* C6: in every state in which no Spin call is part-way through, powered =
\* true implies that the shared enable line is low.
PoweredImpliesEnableLow ==
    (main.pc = "idle" /\ driversPowered) => enablePin = "LOW"


\* the status words and load extremes of every driver
StatusFields ==
    [d \in Drivers |->
        << driverStates[d].lastReadStatus, driverStates[d].accumulatedStatus,
           driverStates[d].minSgLoadRegister, driverStates[d].maxSgLoadRegister >>]

\* the handler takes its first step, its second step
HandlerBegins == isr.pc = "idle" /\ isr'.pc = "afterDone"
HandlerEnds == isr.pc = "afterDone" /\ isr'.pc = "idle"

AlarmsNeverLost ==
    lastCall.op = "ReadAccumulatedStatus" =>
        BitAnd(lastCall.ret, lastCall.owed) = lastCall.owed

\* the mask of ReadAccumulatedStatus for the call the history records
CallMask == IF lastCall.enabled THEN StatusBits ELSE BitClear(StatusBits, TMC_RR_SG)

\* C9 as stated: ReadAccumulatedStatus(k) returns the accumulator's value
\* from before the call and leaves old & k & mask; the value returned holds
\* only bits the previous call kept or a later frame brought.
ReadReturnsOldValue ==
    lastCall.op = "ReadAccumulatedStatus" =>
        /\ lastCall.ret = lastCall.old
        /\ lastCall.left = BitAnd(lastCall.old, BitAnd(lastCall.arg, CallMask))
        /\ BitClear(lastCall.ret, lastCall.expected) = 0

\* C9 amended: ReadAccumulatedStatus(k) returns the seven status flags of the
\* accumulator's value from before the call, SG removed when the driver is
\* disabled, and leaves old & k & mask; the value returned holds only bits
\* the previous call kept or a later frame brought.
ReadReturnsOldFlags ==
    lastCall.op = "ReadAccumulatedStatus" =>
        /\ lastCall.ret = BitAnd(BitAnd(lastCall.old, TMC_RR_FLAGS), CallMask)
        /\ lastCall.left = BitAnd(lastCall.old, BitAnd(lastCall.arg, CallMask))
        /\ BitClear(lastCall.ret, lastCall.expected) = 0

\* a read with k = SG|OT on a disabled driver whose accumulator holds a
\* stall, an alarm and load bits
ReadOfDisabledStalled ==
    /\ lastCall.op = "ReadAccumulatedStatus"
    /\ ~lastCall.enabled
    /\ lastCall.arg = BitOr(TMC_RR_SG, TMC_RR_OT)
    /\ lastCall.old = StatusWord(BitOr(TMC_RR_SG, TMC_RR_OT))
    /\ lastCall.left = TMC_RR_OT
    /\ lastCall.ret = TMC_RR_OT

\* C10: Enable(true) on a disabled driver immediately followed by
\* ReadLiveStatus returns a value whose SG bit is 0, whenever the handler runs.
NoStallAfterEnable ==
    (lastCall.op = "ReadLiveStatus" /\ lastCall.afterEnable) =>
        BitAnd(lastCall.ret, TMC_RR_SG) = 0

\* the status the driver sent in the frame the handler has just decoded
DecodedInput(in) ==
    isr'.spiDataIn = WireWord(Shl(in[1], 4)) /\ isr'.interval = in[2]

\* the load extremes of a driver
LoadExtremes(ds) == << ds.minSgLoadRegister, ds.maxSgLoadRegister >>

\* C11: on every frame completion while powered, with step interval i: if
\* i = 0 or i > maxStallStepInterval the status stored in lastReadStatus and
\* OR-ed into accumulatedStatus has SG = 0 whatever was received and the load
\* extremes are unchanged; if 1 <= i <= maxStallStepInterval the SG bit is
\* stored as received.
StallWindowGatesSG ==
    [][ (HandlerBegins /\ driversPowered) =>
          \A in \in LoadInputs :
             DecodedInput(in) =>
                LET before == driverStates[currentDriver]
                    after == driverStates'[currentDriver]
                    i == in[2]
                IN IF i = 0 \/ i > before.maxStallStepInterval
                   THEN /\ after.lastReadStatus = BitClear(in[1], TMC_RR_SG)
                        /\ after.accumulatedStatus =
                              BitOr(before.accumulatedStatus, BitClear(in[1], TMC_RR_SG))
                        /\ LoadExtremes(after) = LoadExtremes(before)
                   ELSE /\ after.lastReadStatus = in[1]
                        /\ after.accumulatedStatus = BitOr(before.accumulatedStatus, in[1])
      ]_vars

\* a stall reported at exactly maxStallStepInterval has been stored, after a
\* stall reported outside the window left no trace
StallAtEdgeStored ==
    /\ isr.pc = "afterDone"
    /\ isr.interval = driverStates[isr.driver].maxStallStepInterval
    /\ BitAnd(driverStates[isr.driver].lastReadStatus, TMC_RR_SG) = TMC_RR_SG
    /\ BitAnd(driverStates[isr.driver].accumulatedStatus,
              LoadWord(0, MidLoad)) = LoadWord(0, MidLoad)
    /\ LoadExtremes(driverStates[isr.driver]) = << LowLoad, LowLoad >>

\* C12: for every driver and every interleaving of the handler with
\* AppendDriverStatus, once the call has returned: minSgLoadRegister <=
\* maxSgLoadRegister whenever a load was sampled since the reset, both then
\* bound every load sampled since, and minSgLoadRegister > maxSgLoadRegister
\* exactly when no load was sampled since the reset.
LoadExtremesBoundSamples ==
    main.pc = "idle" =>
        \A d \in DOMAIN loadSeen :
            LET ds == driverStates[d]
            IN /\ loadSeen[d] # {} =>
                     /\ ds.minSgLoadRegister <= ds.maxSgLoadRegister
                     /\ \A load \in loadSeen[d] :
                           ds.minSgLoadRegister <= load /\ load <= ds.maxSgLoadRegister
               /\ (ds.minSgLoadRegister > ds.maxSgLoadRegister) <=> (loadSeen[d] = {})

\* the microstepping values the driver chip offers
ValidMicrosteps == {1, 2, 4, 8, 16, 32, 64, 128, 256}

\* C13: for every valid driver index, SetMicrostepping(d, m, interp) with m
\* in {1,2,4,...,256} returns true and a following GetMicrostepping(d)
\* returns m with interpolation = interp; for every other m it returns false
\* and the driver's microstep shift, DRVCTRL shadow and dirty mask are
\* unchanged.
MicrosteppingRoundTrip ==
    [][ /\ (lastCall'.op = "SetMicrostepping" /\ lastCall'.driver \in Drivers) =>
              IF lastCall'.arg \in ValidMicrosteps
              THEN /\ lastCall'.ret = 1
                   /\ GetMicrostepping(driverStates'[lastCall'.driver]) =
                         << lastCall'.arg, lastCall'.interpolate >>
              ELSE /\ lastCall'.ret = 0
                   /\ driverStates' = driverStates
        /\ ( /\ lastCall.op = "SetMicrostepping"
             /\ lastCall.ret = 1
             /\ lastCall'.op = "GetMicrostepping"
             /\ lastCall'.driver = lastCall.driver ) =>
              /\ lastCall'.ret = lastCall.arg
              /\ lastCall'.interpolate = lastCall.interpolate
      ]_vars

\* GetMicrostepping has just returned 256 without interpolation, after the
\* default of 16 with interpolation was replaced and register 0 sent
Microstepping256ReadBack ==
    /\ lastCall.op = "GetMicrostepping"
    /\ lastCall.driver = 0
    /\ lastCall.ret = 256
    /\ ~lastCall.interpolate
    /\ driverStates[0].microstepShiftFactor = 8
    /\ BitAnd(driverStates[0].registersToUpdate, Shl(1, DriveControl)) = 0

\* the MRES field of shadow register 0 is 8 - microstepShiftFactor
ShiftMatchesResolution ==
    \A d \in Drivers :
        /\ driverStates[d].microstepShiftFactor <= 8
        /\ BitAnd(driverStates[d].registers[DriveControl], TMC_DRVCTRL_MRES_MASK) =
              8 - driverStates[d].microstepShiftFactor

\* C14: in every reachable state microstepShiftFactor <= 8 and the MRES field
\* of shadow register 0 equals 8 - microstepShiftFactor; after an accepted
\* SetMicrostepping(d, m, interp) the INTPOL bit of register 0 equals interp,
\* the DEDGE bit is unchanged and register 0 is dirty; while register 0 is
\* dirty the next frame for the driver is its DRVCTRL frame, and that frame
\* carries the shadow value.
MicrosteppingReachesWire ==
    /\ []ShiftMatchesResolution
    /\ [][ /\ (lastCall'.op = "SetMicrostepping" /\ lastCall'.ret = 1) =>
                  LET d == lastCall'.driver
                      old == driverStates[d].registers[DriveControl]
                      new == driverStates'[d].registers[DriveControl]
                  IN /\ (BitAnd(new, TMC_DRVCTRL_INTPOL) # 0) = lastCall'.interpolate
                     /\ BitAnd(new, TMC_DRVCTRL_DEDGE) = BitAnd(old, TMC_DRVCTRL_DEDGE)
                     /\ BitAnd(driverStates'[d].registersToUpdate, Shl(1, DriveControl)) # 0
                     /\ BitAnd(new, TMC_DRVCTRL_MRES_MASK) =
                           8 - MicrostepShift(lastCall'.arg)
           /\ FrameStarted =>
                  LET d == lastFrame'.drv
                  IN /\ BitAnd(driverStates[d].registersToUpdate, Shl(1, DriveControl)) # 0
                        => (lastFrame'.reg = DriveControl /\ ~lastFrame'.keepAlive)
                     /\ (lastFrame'.reg = DriveControl /\ ~lastFrame'.keepAlive)
                        => SentFrame(spiDataOut') = driverStates[d].registers[DriveControl]
          ]_vars

\* SetMicrostepping(0, 16, false) was accepted with register 0 clean, and the
\* DRVCTRL frame now in flight carries MRES = 4 with INTPOL clear
Microstepping16OnWire ==
    /\ frameInFlight
    /\ lastFrame = [drv |-> 0, reg |-> DriveControl, keepAlive |-> FALSE]
    /\ ~undisturbed
    /\ driverStates[0].microstepShiftFactor = 4
    /\ SentFrame(spiDataOut) = 4
    /\ driverStates[0].registersToUpdate = 0

\* the fields of a chopper control word, by arithmetic
OffTimeField(v) == v % 16
BlankTimeField(v) == (v \div 32768) % 4
ChopperPayload(v) == v % 131072

\* C15: for every value v that SetChopperControlRegister accepts, a following
\* GetChopperControlRegister returns v & 0x1FFFF, whether the driver is
\* enabled or disabled.
ChopConfRoundTrip ==
    [][ /\ (lastCall'.op = "SetChopConf" /\ lastCall'.ret = 1) =>
              GetChopConf(driverStates'[lastCall'.driver]) = ChopperPayload(lastCall'.arg)
        /\ ( /\ lastCall.op = "SetChopConf"
             /\ lastCall.ret = 1
             /\ lastCall'.op = "GetChopConf"
             /\ lastCall'.driver = lastCall.driver ) =>
              lastCall'.ret = ChopperPayload(lastCall.arg)
      ]_vars

\* GetChopperControlRegister has just returned the off time 15 configured for
\* a disabled driver, whose shadow register holds off time 0
ChopConfReadWhileDisabled ==
    /\ lastCall.op = "GetChopConf"
    /\ lastCall.driver = 0
    /\ lastCall.ret = BitOr(TMC_CHOPCONF_TBL(1), TMC_CHOPCONF_TOFF(15))
    /\ ~driverStates[0].enabled
    /\ ShadowOffTime(driverStates[0]) = 0

\* C16: SetChopConf(v) returns false exactly when the off-time field of v is
\* 0, or is 1 while the blanking-time field of v is 0; for every other v it
\* returns true, stores v's low 17 bits as the configured chopper register,
\* writes shadow register 2 as the configured value when enabled or the
\* configured value with the off time cleared when disabled, and marks
\* register 2 dirty.
ChopConfValidation ==
    [][ (lastCall'.op = "SetChopConf" /\ lastCall'.driver \in Drivers) =>
            LET v == lastCall'.arg
                new == driverStates'[lastCall'.driver]
                refused == OffTimeField(v) = 0
                           \/ (OffTimeField(v) = 1 /\ BlankTimeField(v) = 0)
            IN IF refused
               THEN lastCall'.ret = 0
               ELSE /\ lastCall'.ret = 1
                    /\ new.configuredChopConfReg = TMC_REG_CHOPCONF + ChopperPayload(v)
                    /\ new.registers[ChopperControl] =
                          IF new.enabled THEN new.configuredChopConfReg
                          ELSE new.configuredChopConfReg - OffTimeField(v)
                    /\ (new.registersToUpdate \div 4) % 2 = 1
      ]_vars

\* SetChopConf with off time 2 and blanking time 0 was accepted on an enabled
\* driver whose registers had all been sent
ChopConfAcceptedNoBlankTime ==
    /\ lastCall.op = "SetChopConf"
    /\ lastCall.driver = 0
    /\ lastCall.arg = TMC_CHOPCONF_TOFF(2)
    /\ lastCall.ret = 1
    /\ driverStates[0].enabled
    /\ driverStates[0].registers[ChopperControl] = TMC_REG_CHOPCONF + 2
    /\ driverStates[0].registersToUpdate = Shl(1, ChopperControl)

\* C17: for a valid driver index SetOffTime(n) returns true if and only if
\* 1 <= n <= 15 and not (n = 1 while the configured blanking-time field is
\* 0); when it returns true GetOffTime returns n and every other field of the
\* configured chopper register is unchanged.
OffTimeValidation ==
    [][ /\ (lastCall'.op = "SetOffTime" /\ lastCall'.driver \in Drivers) =>
              LET n == lastCall'.arg
                  old == driverStates[lastCall'.driver].configuredChopConfReg
                  new == driverStates'[lastCall'.driver].configuredChopConfReg
                  valid == 1 <= n /\ n <= 15 /\ ~(n = 1 /\ BlankTimeField(old) = 0)
              IN /\ (lastCall'.ret = 1) <=> valid
                 /\ lastCall'.ret = 1 =>
                       /\ GetOffTime(driverStates'[lastCall'.driver]) = n
                       /\ new \div 16 = old \div 16
        /\ ( /\ lastCall.op = "SetOffTime"
             /\ lastCall.ret = 1
             /\ lastCall'.op = "GetOffTime"
             /\ lastCall'.driver = lastCall.driver ) =>
              lastCall'.ret = lastCall.arg
      ]_vars

\* SetOffTime(1) was accepted with blanking time 1 configured, and refused
\* values left the register as it was
OffTimeOneAccepted ==
    /\ lastCall.op = "SetOffTime"
    /\ lastCall.driver = 0
    /\ lastCall.arg = 1
    /\ lastCall.ret = 1
    /\ driverStates[0].configuredChopConfReg =
          BitOr(TMC_REG_CHOPCONF, BitOr(TMC_CHOPCONF_TBL(1), TMC_CHOPCONF_TOFF(1)))

\* C20: Enable(x) on a driver whose enabled flag already equals x changes
\* nothing of the driver, no shadow register, no status word and no dirty
\* bit; Enable(true) on a disabled driver sets shadow register 2 to the
\* configured chopper register and marks only register 2 dirty;
\* Enable(false) on an enabled driver sets shadow register 2 to the
\* configured value with the off-time field cleared and marks only register
\* 2 dirty.
EnableActsOnChange ==
    [][ (lastCall'.op = "Enable" /\ lastCall'.driver \in Drivers) =>
            LET old == driverStates[lastCall'.driver]
                new == driverStates'[lastCall'.driver]
                en == lastCall'.arg = 1
            IN IF old.enabled = en
               THEN new = old
               ELSE /\ new.enabled = en
                    /\ new.configuredChopConfReg = old.configuredChopConfReg
                    /\ new.registers[ChopperControl] =
                          IF en THEN old.configuredChopConfReg
                          ELSE old.configuredChopConfReg
                                  - OffTimeField(old.configuredChopConfReg)
                    /\ \A r \in AllRegisters \ {ChopperControl} :
                          new.registers[r] = old.registers[r]
                    /\ new.registersToUpdate =
                          old.registersToUpdate
                             + (IF (old.registersToUpdate \div 4) % 2 = 1 THEN 0 ELSE 4)
      ]_vars

\* Enable(true) has just returned on an enabled driver whose registers had
\* all been sent: nothing is dirty
EnableRepeated ==
    /\ lastCall.op = "Enable"
    /\ lastCall.driver = 0
    /\ lastCall.arg = 1
    /\ driverStates[0].enabled
    /\ driverStates[0].registersToUpdate = 0
    /\ ShadowOffTime(driverStates[0]) = 4

\* the setters that return a result
ResultSetters == {"SetMicrostepping", "SetChopConf", "SetOffTime", "SetDriverMode"}

\* C18: whenever SetMicrostepping, SetChopperControlRegister, SetOffTime or
\* SetDriverMode returns false, no state of any driver is changed: shadow
\* registers, configured chopper register, microstep shift, enabled flag and
\* dirty mask are as before the call, and no frame is started.
RefusedSetterChangesNothing ==
    [][ (lastCall'.op \in ResultSetters /\ lastCall'.ret = 0) =>
            /\ driverStates' = driverStates
            /\ UNCHANGED << currentDriver, hwVars >>
      ]_vars

\* SetOffTime(17) has just been refused on an enabled driver in constant
\* off-time mode whose registers had all been sent
OffTimeRefusedWhenClean ==
    /\ lastCall.op = "SetOffTime"
    /\ lastCall.driver = 0
    /\ lastCall.arg = 17
    /\ lastCall.ret = 0
    /\ driverStates[0].enabled
    /\ GetDriverMode(driverStates[0]) = "constantOffTime"
    /\ driverStates[0].registersToUpdate = 0

\* the getters that report 0 for a driver that does not exist
ZeroGetters == {"ReadLiveStatus", "ReadAccumulatedStatus", "GetChopConf", "GetOffTime"}

\* C19: every facade call with driver index >= numTmc2660Drivers changes no
\* state of any driver and starts no frame; boolean setters return false,
\* GetLiveStatus, GetAccumulatedStatus, GetChopperControlRegister and
\* GetOffTime return 0, GetMicrostepping returns 1 with interpolation false,
\* and GetDriverMode returns unknown.
NoSuchDriverIgnored ==
    [][ (lastCall'.op # "none" /\ lastCall'.driver >= numTmc2660Drivers) =>
            /\ driverStates' = driverStates
            /\ UNCHANGED << driversPowered, currentDriver, hwVars, main >>
            /\ lastCall'.op \in ResultSetters => lastCall'.ret = 0
            /\ lastCall'.op \in ZeroGetters => lastCall'.ret = 0
            /\ lastCall'.op = "GetMicrostepping" =>
                  (lastCall'.ret = 1 /\ ~lastCall'.interpolate)
            /\ lastCall'.op = "GetDriverMode" => lastCall'.mode = "unknown"
      ]_vars

\* GetMicrostepping has just returned 1 for a driver that does not exist,
\* while the driver that exists is enabled, at 256 microsteps and holds an
\* alarm
NoSuchDriverAsked ==
    /\ lastCall.op = "GetMicrostepping"
    /\ lastCall.driver = numTmc2660Drivers
    /\ lastCall.ret = 1
    /\ driverStates[0].enabled
    /\ driverStates[0].microstepShiftFactor = 8
    /\ driverStates[0].lastReadStatus = StatusWord(TMC_RR_OT)

\* C21: for each mode m of spread-cycle, constant-off-time and
\* random-off-time and every reachable driver state, SetDriverMode(m) returns
\* true, a following GetDriverMode returns m, only the CHM and RNDTF bits of
\* the configured chopper register change, and register 2 is marked dirty;
\* any other mode value returns false.
DriverModeRoundTrip ==
    [][ /\ (lastCall'.op = "SetDriverMode" /\ lastCall'.driver \in Drivers) =>
              LET old == driverStates[lastCall'.driver].configuredChopConfReg
                  new == driverStates'[lastCall'.driver]
              IN IF lastCall'.mode \in {"spreadCycle", "constantOffTime", "randomOffTime"}
                 THEN /\ lastCall'.ret = 1
                      /\ GetDriverMode(new) = lastCall'.mode
                      /\ new.configuredChopConfReg % TMC_CHOPCONF_RNDTF =
                            old % TMC_CHOPCONF_RNDTF
                      /\ new.configuredChopConfReg \div (2 * TMC_CHOPCONF_CHM) =
                            old \div (2 * TMC_CHOPCONF_CHM)
                      /\ (new.registersToUpdate \div 4) % 2 = 1
                 ELSE lastCall'.ret = 0
        /\ ( /\ lastCall.op = "SetDriverMode"
             /\ lastCall.ret = 1
             /\ lastCall'.op = "GetDriverMode"
             /\ lastCall'.driver = lastCall.driver ) =>
              lastCall'.mode = lastCall.mode
      ]_vars

\* GetDriverMode has just returned random off time for an enabled driver
\* whose off time was set to 15 beforehand
RandomOffTimeReadBack ==
    /\ lastCall.op = "GetDriverMode"
    /\ lastCall.driver = 0
    /\ lastCall.mode = "randomOffTime"
    /\ driverStates[0].enabled
    /\ GetOffTime(driverStates[0]) = 15
    /\ driverStates[0].registers[ChopperControl] = driverStates[0].configuredChopConfReg

\* register r is marked dirty in a driver's record
IsDirty(ds, r) == (ds.registersToUpdate \div (2 ^ r)) % 2 = 1

\* C22: SetCurrent(c) clamps c to [100, 2400] mA, truncates it to an integer
\* i, writes CS = (32*i - 1600) / 3236 (integer division, a value in 0..23,
\* with no unsigned underflow) into the low 5 bits of shadow register 1,
\* leaves the SGT and SFILT fields and the address bits of register 1
\* unchanged, and marks register 1 dirty; inputs below 100 encode as 100 and
\* inputs above 2400 encode as 2400.
CurrentEncoding ==
    [][ (lastCall'.op = "SetCurrent" /\ lastCall'.driver \in Drivers) =>
            LET c == lastCall'.arg
                i == IF c < 1000 THEN 100 ELSE IF c > 24000 THEN 2400 ELSE c \div 10
                cs == (32 * i - 1600) \div 3236
                old == driverStates[lastCall'.driver]
                new == driverStates'[lastCall'.driver]
            IN /\ cs \in 0 .. 23
               /\ new.registers[StallGuardConfig] % 32 = cs
               /\ new.registers[StallGuardConfig] \div 32 =
                     old.registers[StallGuardConfig] \div 32
               /\ IsDirty(new, StallGuardConfig)
      ]_vars

\* SetCurrent(152.0 mA) has just written CS = 1 beside a threshold of -64 and
\* the filter bit, with register 1 sent before the call
CurrentOneStepUp ==
    /\ lastCall.op = "SetCurrent"
    /\ lastCall.driver = 0
    /\ lastCall.arg = 1520
    /\ driverStates[0].registers[StallGuardConfig] =
          TMC_REG_SGCSCONF + TMC_SGCSCONF_SGT_SFILT + 64 * 256 + 1
    /\ driverStates[0].registersToUpdate = Shl(1, StallGuardConfig)

\* C23: SetStallDetectThreshold(t) clamps t to [-64, 63] and stores it as
\* 7-bit two's complement in the SGT field (bits 14:8) of shadow register 1,
\* leaving the CS and SFILT fields unchanged and marking register 1 dirty;
\* decoding that field as AppendStallConfig does (value >= 64 means value -
\* 128) yields exactly the clamped t.
StallThresholdEncoding ==
    [][ /\ (lastCall'.op = "SetStallThreshold" /\ lastCall'.driver \in Drivers) =>
              LET t == lastCall'.arg
                  c == IF t < -64 THEN -64 ELSE IF t > 63 THEN 63 ELSE t
                  old == driverStates[lastCall'.driver]
                  new == driverStates'[lastCall'.driver]
              IN /\ (new.registers[StallGuardConfig] \div 256) % 128 =
                       (IF c < 0 THEN c + 128 ELSE c)
                 /\ new.registers[StallGuardConfig] % 256 =
                       old.registers[StallGuardConfig] % 256
                 /\ new.registers[StallGuardConfig] \div 32768 =
                       old.registers[StallGuardConfig] \div 32768
                 /\ IsDirty(new, StallGuardConfig)
                 /\ StallThresholdShown(new) = c
        /\ ( /\ lastCall.op = "SetStallThreshold"
             /\ lastCall.driver \in Drivers
             /\ lastCall'.op = "AppendStallConfig"
             /\ lastCall'.driver = lastCall.driver ) =>
              lastCall'.ret = (IF lastCall.arg < -64 THEN -64
                               ELSE IF lastCall.arg > 63 THEN 63 ELSE lastCall.arg)
      ]_vars

\* AppendStallConfig has just shown -64 for a driver at the largest current
\* with the filter on, after a threshold of -100 was asked for
StallThresholdFloorShown ==
    /\ lastCall.op = "AppendStallConfig"
    /\ lastCall.driver = 0
    /\ lastCall.ret = -64
    /\ driverStates[0].registers[StallGuardConfig] =
          TMC_REG_SGCSCONF + TMC_SGCSCONF_SGT_SFILT + 64 * 256 + 23

\* C24: GetLiveStatus returns lastReadStatus restricted to the seven flags
\* SG, OT, OTPW, S2G, OLA, OLB and STST (never any load bits), with SG forced
\* to 0 whenever the driver is disabled, and it modifies no state.
LiveStatusIsFlagsOnly ==
    [][ lastCall'.op = "ReadLiveStatus" =>
            LET ds == driverStates[lastCall'.driver]
                last == ds.lastReadStatus
                flags == (last % 16) + 32 * ((last \div 32) % 8)
            IN /\ lastCall'.ret = (IF ds.enabled THEN flags ELSE flags - (flags % 2))
               /\ lastCall'.ret < 2 ^ TMC_RR_SG_LOAD_SHIFT
               /\ driverStates' = driverStates
               /\ UNCHANGED << driversPowered, currentDriver, hwVars, main, isr >>
      ]_vars

\* GetLiveStatus has just returned no flag for a disabled driver whose last
\* status holds a stall and a load
LiveStatusOfDisabledStalled ==
    /\ lastCall.op = "ReadLiveStatus"
    /\ lastCall.driver = 0
    /\ ~driverStates[0].enabled
    /\ driverStates[0].lastReadStatus = StatusWord(TMC_RR_SG)
    /\ lastCall.ret = 0

\* Init(count) has returned and nothing was called since
AsInitLeavesIt(count) ==
    /\ numTmc2660Drivers = (IF count < MaxSmartDrivers THEN count ELSE MaxSmartDrivers)
    /\ ~driversPowered
    /\ enablePin = "HIGH"
    /\ ~frameInFlight
    /\ DOMAIN driverStates = 0 .. (numTmc2660Drivers - 1)
    /\ \A d \in DOMAIN driverStates :
          /\ ~driverStates[d].enabled
          /\ driverStates[d].registersToUpdate = 1 + 2 + 4 + 8 + 16
          /\ driverStates[d].axisNumber = d
          /\ driverStates[d].lastReadStatus = 0
          /\ driverStates[d].accumulatedStatus = 0
          /\ driverStates[d].minSgLoadRegister = 1023
          /\ driverStates[d].maxSgLoadRegister = 0

\* C25: after Init(pins, count) the driver count is min(count,
\* MaxSmartDrivers), powered is false, the shared enable line is high, no
\* frame is in flight, and every driver is disabled with dirty mask = all
\* five registers, axis number equal to its index, last and accumulated
\* status 0 and load extremes (1023, 0); no frame is started until Spin(true)
\* is called.
InitLeavesDriversOff ==
    /\ [](lastCall.op = "Init" => AsInitLeavesIt(lastCall.arg))
    /\ [][FrameStarted => spunUp]_vars

\* Init was called with more drivers than the array holds; since then a
\* driver was enabled and Spin(false) and TurnDriversOff ran, and no frame
\* has been started
NoFrameBeforeSpin ==
    /\ numTmc2660Drivers = MaxSmartDrivers
    /\ ~spunUp
    /\ lastCall.op = "Enable"
    /\ driverStates[MaxSmartDrivers - 1].enabled
    /\ driverStates[0].registersToUpdate = UpdateAllRegisters
    /\ currentDriver = nullptr
    /\ ~frameInFlight
    /\ enablePin = "HIGH"

\* the main thread has loaded accumulatedStatus or lastReadStatus in Enable
\* and has not yet stored it back
MidStatusUpdate == main.pc \in {"En_storeAcc", "En_storeLast"}

\* C30: every write to lastReadStatus, accumulatedStatus and the load
\* extremes is made by the SPI handler or by the main thread with interrupts
\* disabled, so the handler never updates a driver's status words between
\* the load and the store of a main-thread read-modify-write of them.
StatusWritesExcludeHandler ==
    [][ (HandlerBegins /\ driversPowered) =>
            ~(MidStatusUpdate /\ main.driver = currentDriver) ]_vars

\* the value most recently transmitted for register r of driver d is its
\* shadow value
LastSentIsShadow(d, r) ==
    /\ sent[d][r] # << >>
    /\ sent[d][r][Len(sent[d][r])] = driverStates[d].registers[r]

\* every dirty mask is empty and every register on the wire is up to date
AllSent ==
    \A d \in Drivers :
        /\ driverStates[d].registersToUpdate = 0
        /\ \A r \in AllRegisters : LastSentIsShadow(d, r)

\* C26: if the drivers stay powered with the ring running and the main
\* thread eventually stops calling setters, then eventually every driver's
\* dirty mask is empty and, for each of the five registers, the value most
\* recently transmitted to that driver equals its current shadow value; every
\* register a setter marked dirty is eventually transmitted.
ShadowReachesWire ==
    /\ <>[]AllSent
    /\ \A d \in 0 .. (NumDirtyDrivers - 1), r \in AllRegisters :
          (main.pc = "idle" /\ IsDirty(driverStates[d], r))
             ~> (lastFrame.drv = d /\ lastFrame.reg = r /\ LastSentIsShadow(d, r))

\* two setter calls have returned, the second on the stallGuard register,
\* and everything they wrote has been transmitted
TwoSettersDrained ==
    /\ Len(written) = MaxSetterCalls
    /\ written[1][2] = SmartEnable
    /\ written[2][2] = StallGuardConfig
    /\ main.pc = "idle"
    /\ AllSent
    /\ sent[0][StallGuardConfig][Len(sent[0][StallGuardConfig])] =
          defaultSgscConfReg + TMC_SGCSCONF_SGT_SFILT

\* C27: for every interleaving of the SPI handler with the steps of the
\* setters (write the shadow word, then load, OR and store the dirty mask):
\* whenever no setter is part-way through, a driver's dirty bit r is clear
\* and register r has been sent since power-up, the value last transmitted
\* for r equals the shadow value of r.
CleanMeansSent ==
    main.pc = "idle" =>
        \A d \in Drivers, r \in AllRegisters :
            (~IsDirty(driverStates[d], r) /\ sent[d][r] # << >>) => LastSentIsShadow(d, r)

\* the handler sent the chopper register between the load and the store of a
\* setter's dirty-mask update, the setter has returned, and the register has
\* been sent again
SentAcrossSetter ==
    /\ main.pc = "idle"
    /\ Len(written) = MaxSetterCalls
    /\ written[1][2] = ChopperControl
    /\ written[2][2] = ChopperControl
    /\ Len(sent[0][ChopperControl]) = 3
    /\ driverStates[0].registersToUpdate = 0
    /\ LastSentIsShadow(0, ChopperControl)

\* the lowest-numbered register marked dirty in the mask toUpdate
LowestDirty(toUpdate) ==
    CHOOSE r \in AllRegisters :
        /\ (toUpdate \div (2 ^ r)) % 2 = 1
        /\ \A q \in 0 .. (r - 1) : (toUpdate \div (2 ^ q)) % 2 = 0

\* C28: each StartTransfer on a driver sends the shadow value of the
\* lowest-numbered register whose dirty bit is set and clears exactly that
\* bit, leaving all other dirty bits set; when the dirty mask is empty it
\* sends shadow register 4 (SmartEnable) as a keep-alive and the dirty mask
\* stays empty.
TransferSendsLowestDirty ==
    [][FrameStarted =>
        LET d == lastFrame'.drv
            toUpdate == driverStates[d].registersToUpdate
            frame == SentFrame(spiDataOut')
        IN IF toUpdate = 0
           THEN /\ frame = driverStates[d].registers[SmartEnable]
                /\ lastFrame'.reg = SmartEnable
                /\ driverStates'[d].registersToUpdate = 0
           ELSE /\ frame = driverStates[d].registers[LowestDirty(toUpdate)]
                /\ lastFrame'.reg = LowestDirty(toUpdate)
                /\ driverStates'[d].registersToUpdate =
                      toUpdate - 2 ^ LowestDirty(toUpdate)]_vars

\* after the write-all was drained two setters marked register 4 and then
\* register 1; the frame just started carries register 1 and register 4 is
\* still marked
LowestSentFirst ==
    /\ Len(written) = MaxSetterCalls
    /\ written[1][2] = SmartEnable
    /\ written[2][2] = StallGuardConfig
    /\ lastFrame = [drv |-> 0, reg |-> StallGuardConfig, keepAlive |-> FALSE]
    /\ frameInFlight
    /\ Len(sent[0][StallGuardConfig]) = 2
    /\ sent[0][StallGuardConfig][2] = written[2][3]
    /\ driverStates[0].registersToUpdate = 2 ^ SmartEnable

\* no setter has been called but on register r of driver d, and at most
\* twice
OnlyCallsOn(d, r) ==
    /\ Len(written) <= 2
    /\ \A k \in 1 .. Len(written) : written[k][1] = d /\ written[k][2] = r

\* C29: starting from a driver with an empty dirty mask while the ring
\* runs, two successive setter calls on the same register r (here the
\* stallGuard register), with no other setter called, cause at most two
\* frames carrying register r under every interleaving with the handler;
\* the frames carry values in call order and the last of them carries the
\* second setter's value.
TwoSettersTwoFrames ==
    \A d \in Drivers :
        OnlyCallsOn(d, StallGuardConfig) =>
            LET frames == sent[d][StallGuardConfig]
            IN /\ Len(frames) <= 2
               /\ Len(frames) <= Len(written)
               /\ \A i \in 1 .. Len(frames) :
                     \E k \in 1 .. Len(written) : frames[i] = written[k][3]
               /\ (Len(frames) = 2 /\ frames[1] # frames[2]) =>
                     (frames[1] = written[1][3] /\ frames[2] = written[2][3])
               /\ (Len(written) = 2 /\ main.pc = "idle"
                      /\ ~IsDirty(driverStates[d], StallGuardConfig)) =>
                     (frames # << >> /\ frames[Len(frames)] = written[2][3])

\* the second call superseded the first before it was sent: both calls
\* have returned and the one frame for the register carries the second value
SecondSupersedesFirst ==
    /\ Len(written) = 2
    /\ written[1][3] # written[2][3]
    /\ main.pc = "idle"
    /\ driverStates[0].registersToUpdate = 0
    /\ sent[0][StallGuardConfig] = << written[2][3] >>

\* C31 as amended: the SG bit of the status that ReadLiveStatus and
\* ReadAccumulatedStatus return is 0 whenever the driver's enabled flag is
\* false; the stored words keep whatever SG bit the handler decoded and are
\* masked only when they are read.
DisabledDriverShowsNoStall ==
    (lastCall.op \in {"ReadLiveStatus", "ReadAccumulatedStatus"} /\ ~lastCall.enabled) =>
        BitAnd(lastCall.ret, TMC_RR_SG) = 0

\* an accumulator read of a disabled driver whose stored word had SG set
\* has returned
StalledAccumulatorReadDisabled ==
    /\ lastCall.op = "ReadAccumulatedStatus"
    /\ ~lastCall.enabled
    /\ BitAnd(lastCall.old, TMC_RR_SG) # 0
    /\ BitAnd(driverStates[lastCall.driver].lastReadStatus, TMC_RR_SG) # 0
    /\ BitAnd(lastCall.ret, TMC_RR_SG) = 0

\* C31 as stated: in every reachable state the SG bit of a driver's stored
\* last status is 0 whenever that driver's enabled flag is false.
StoredStallClearWhileDisabled ==
    \A d \in Drivers :
        ~driverStates[d].enabled => BitAnd(driverStates[d].lastReadStatus, TMC_RR_SG) = 0

\* the main thread is inside a Spin call that read driversPowered equal to
\* its argument
SameStateSpin ==
    /\ main.pc \in {"Spin_store", "Spin_enable", "Spin_writeAll", "Spin_check",
                     "ST_publish", "ST_select", "ST_clear", "Spin_disable"}
    /\ main.powered = main.wasPowered

ChangedOnlyField(d, r, fieldMask) ==
    LET old == driverStates[d]
        new == driverStates'[d]
    IN /\ BitClear(new.registers[r], fieldMask) = BitClear(old.registers[r], fieldMask)
       /\ \A q \in AllRegisters \ {r} : new.registers[q] = old.registers[q]
       /\ new.registersToUpdate = BitOr(old.registersToUpdate, 2 ^ r)
       /\ [new EXCEPT !.registers = old.registers,
                      !.registersToUpdate = old.registersToUpdate,
                      !.microstepShiftFactor = old.microstepShiftFactor] = old
       /\ \A e \in Drivers \ {d} : driverStates'[e] = driverStates[e]

\* C33: each register-model setter changes only its own field of its own
\* shadow register and sets only that register's dirty bit: SetCurrent
\* changes only CS, SetStallDetectThreshold only SGT, SetStallDetectFilter
\* only SFILT (all in register 1), SetMicrostepping only MRES and INTPOL of
\* register 0, SetCoolStep only the payload of register 4; every other
\* shadow register, every other field, the configured chopper word, the
\* enabled flag and the status words are unchanged.
SettersChangeOwnField ==
    [][(lastCall'.driver \in Drivers) =>
        LET d == lastCall'.driver
            op == lastCall'.op
        IN /\ op = "SetCurrent" =>
                 /\ ChangedOnlyField(d, StallGuardConfig, TMC_SGCSCONF_CS_MASK)
                 /\ driverStates'[d].microstepShiftFactor =
                       driverStates[d].microstepShiftFactor
           /\ op = "SetStallThreshold" =>
                 /\ ChangedOnlyField(d, StallGuardConfig, TMC_SGCSCONF_SGT_MASK)
                 /\ driverStates'[d].microstepShiftFactor =
                       driverStates[d].microstepShiftFactor
           /\ op = "SetStallFilter" =>
                 /\ ChangedOnlyField(d, StallGuardConfig, TMC_SGCSCONF_SGT_SFILT)
                 /\ driverStates'[d].microstepShiftFactor =
                       driverStates[d].microstepShiftFactor
           /\ (op = "SetMicrostepping" /\ lastCall'.ret = 1) =>
                 ChangedOnlyField(d, DriveControl,
                                  TMC_DRVCTRL_MRES_MASK + TMC_DRVCTRL_INTPOL)
           /\ op = "SetCoolStep" =>
                 /\ ChangedOnlyField(d, SmartEnable, TMC_DATA_MASK)
                 /\ driverStates'[d].microstepShiftFactor =
                       driverStates[d].microstepShiftFactor]_vars

\* SetStallThreshold has just returned on a driver whose stallGuard register
\* holds a filter bit and a current scale that other setters wrote and
\* whose dirty mask the ring had drained
ThresholdSetBesideOtherFields ==
    /\ lastCall.op = "SetStallThreshold"
    /\ lastCall.driver = 0
    /\ lastCall.arg = 63
    /\ BitAnd(driverStates[0].registers[StallGuardConfig], TMC_SGCSCONF_SGT_SFILT) # 0
    /\ BitAnd(driverStates[0].registers[StallGuardConfig], TMC_SGCSCONF_CS_MASK) = 23
    /\ BitAnd(driverStates[0].registers[StallGuardConfig], TMC_SGCSCONF_SGT_MASK) =
          Shl(63, TMC_SGCSCONF_SGT_SHIFT)
    /\ driverStates[0].registersToUpdate = 2 ^ StallGuardConfig

\* the three address bits of each register: DRVCTRL 000, SGCSCONF 110,
\* CHOPCONF 100, DRVCONF 111, SMARTEN 101
RegisterAddress(r) ==
    CASE r = DriveControl -> 0
      [] r = StallGuardConfig -> 6
      [] r = ChopperControl -> 4
      [] r = DriveConfig -> 7
      [] r = SmartEnable -> 5

\* C34: after Init and after any sequence of setter calls, every shadow
\* register value fits in 20 bits and its top three bits are its own
\* register address, so no frame can be addressed to a register other than
\* the one whose shadow it carries.
ShadowCarriesOwnAddress ==
    \A d \in Drivers, r \in AllRegisters :
        /\ driverStates[d].registers[r] < 2 ^ 20
        /\ driverStates[d].registers[r] \div (2 ^ 17) = RegisterAddress(r)

\* a chopper word carrying the address of DRVCONF was accepted, the cool
\* step register holds a full payload, and the driver is enabled
ForeignAddressDropped ==
    /\ lastCall.op = "SetChopConf"
    /\ lastCall.arg \div (2 ^ 17) = RegisterAddress(DriveConfig)
    /\ lastCall.ret = 1
    /\ driverStates[0].enabled
    /\ driverStates[0].registers[ChopperControl] = TMC_REG_CHOPCONF + (lastCall.arg % (2 ^ 17))
    /\ driverStates[0].registers[SmartEnable] = TMC_REG_SMARTEN + FieldCoolStep

\* 20-bit values: none, one and all but one of the bits set, and all of them
WireValues ==
    {0, 2 ^ 20 - 1} \cup {2 ^ k : k \in 0 .. 19} \cup {2 ^ 20 - 1 - 2 ^ k : k \in 0 .. 19}

\* the register value handed to SetupDMA by the step that starts a frame
FrameValue == driverStates[lastFrame'.drv].registers[lastFrame'.reg]

\* C35 as amended: for every 20-bit register value v, the three bytes
\* SetupDMA hands to the DMA for transmission form, taken MSB-first as a
\* 24-bit number, the value v itself: v is in the lower 20 bits and the
\* upper 4 bits, which are sent first, are 0.
FrameCarriesValueLow ==
    /\ \A v \in WireValues : SentFrame(SetupDMA(v)) = v
    /\ [][FrameStarted => SentFrame(spiDataOut') = FrameValue]_vars

\* the frame in flight carries the stallGuard register with the filter bit
\* that a setter wrote
FilterBitOnTheWire ==
    /\ frameInFlight
    /\ lastFrame = [drv |-> 0, reg |-> StallGuardConfig, keepAlive |-> FALSE]
    /\ BitAnd(driverStates[0].registers[StallGuardConfig], TMC_SGCSCONF_SGT_SFILT) # 0
    /\ SentFrame(spiDataOut) = driverStates[0].registers[StallGuardConfig]
    /\ SentFrame(spiDataOut) \div (2 ^ 20) = 0

\* C35 as stated: for every 20-bit register value v, the three bytes
\* SetupDMA hands to the DMA form, taken MSB-first as a 24-bit number, the
\* value v placed in the upper 20 bits (v * 16 plus don't-care low 4 bits).
FrameCarriesValueHigh ==
    /\ \A v \in WireValues : SentFrame(SetupDMA(v)) \div 16 = v
    /\ [][FrameStarted => SentFrame(spiDataOut') \div 16 = FrameValue]_vars

\* no frame is in flight and the end-of-receive interrupt is not armed
RingQuiet == ~frameInFlight /\ ~endrxEnabled

\* the main thread is inside the StartTransfer that Spin called, between the
\* store to currentDriver (line 558) and the arming of the transfer
InMainStartTransfer == main.pc \in {"ST_select", "ST_clear"}

\* a call of Spin(true) returns
SpinTrueReturns ==
    /\ main.pc \in {"Spin_check", "ST_clear"}
    /\ main.powered
    /\ main'.pc = "idle"

\* C36 as amended: under every interleaving of Spin, TurnDriversOff and the
\* SPI completion handler, whenever currentDriver is null no SPI frame is in
\* flight and the end-of-receive interrupt is not armed; currentDriver is
\* non-null with no frame in flight and the interrupt not armed only while
\* the main thread is inside the StartTransfer that Spin called, and there
\* the handler is not running and nothing is in flight, so Spin never starts
\* a second transfer while one is in flight; and when a Spin(true) call
\* returns with driversPowered true a frame is in flight with the interrupt
\* armed.
NullOnlyWhenQuiet ==
    /\ [](currentDriver = nullptr => RingQuiet)
    /\ []((currentDriver # nullptr /\ RingQuiet) => InMainStartTransfer)
    /\ [](main.pc \in {"ST_publish", "ST_select", "ST_clear"} =>
             (RingQuiet /\ isr.pc = "idle"))
    /\ [][(SpinTrueReturns /\ driversPowered' /\ numTmc2660Drivers # 0) =>
             (currentDriver' # nullptr /\ frameInFlight' /\ endrxEnabled')]_vars

\* Spin(true) found a transfer in flight when the power had been cut and
\* restored, and returned without starting one
SpinFoundRingRunning ==
    /\ main.pc = "idle"
    /\ driversPowered
    /\ enablePin = "LOW"
    /\ currentDriver # nullptr
    /\ currentDriver # 0
    /\ frameInFlight
    /\ endrxEnabled
    /\ \A d \in Drivers : driverStates[d].registersToUpdate = UpdateAllRegisters

\* C36 as stated: under every interleaving of Spin, TurnDriversOff and the
\* SPI completion handler, currentDriver is null exactly when no SPI frame
\* is in flight and the end-of-receive interrupt is not armed.
NullExactlyWhenQuiet == (currentDriver = nullptr) <=> RingQuiet

\* C37: in every reachable state each driver's configured chopper register
\* is itself a value SetChopConf would accept: its off-time field is in
\* 1..15 and is not 1 while its blanking-time field is 0, and it carries the
\* CHOPCONF address bits; this holds after Init and after any sequence of
\* accepted or rejected SetChopConf, SetOffTime and SetDriverMode calls.
ConfiguredChopConfAcceptable ==
    \A d \in Drivers :
        LET v == driverStates[d].configuredChopConfReg
        IN /\ OffTimeField(v) \in 1 .. 15
           /\ ~(OffTimeField(v) = 1 /\ BlankTimeField(v) = 0)
           /\ v \div (2 ^ 17) = TMC_REG_CHOPCONF \div (2 ^ 17)

\* SetOffTime(1) was refused on a driver configured with blanking time 0,
\* and the configured register is as it was
OffTimeOneRefusedAtNoBlankTime ==
    /\ lastCall.op = "SetOffTime"
    /\ lastCall.driver = 0
    /\ lastCall.arg = 1
    /\ lastCall.ret = 0
    /\ BlankTimeField(driverStates[0].configuredChopConfReg) = 0
    /\ OffTimeField(driverStates[0].configuredChopConfReg) = 2

\* C38: after Init and after any call SetStallMinimumStepsPerSecond(r) with
\* any unsigned r (including 0 and values above the step clock rate),
\* maxStallStepInterval is at least 1, so the division
\* StepClockRate / maxStallStepInterval performed by AppendStallConfig is
\* never a division by zero.
StallIntervalAtLeastOne ==
    /\ \A d \in Drivers : driverStates[d].maxStallStepInterval >= 1
    /\ (lastCall.op = "AppendStallConfig" /\ lastCall.driver < numTmc2660Drivers) =>
          driverStates[lastCall.driver].maxStallStepInterval # 0

\* C39: in the LCD menu, after the first Menu::Load and under any sequence
\* of Load calls, Pop calls (triggered by 'return' actions, including at the
\* root menu) and timeout reloads, numNestedMenus stays within
\* 1..MaxMenuNesting, so filenames[numNestedMenus - 1] read by Reload and
\* LoadError is always a valid index and the counter never underflows.
NestingStaysInRange ==
    menu.loaded =>
        /\ menu.numNestedMenus \in 1 .. MaxMenuNesting
        /\ menu.fname = menu.filenames[menu.numNestedMenus - 1]
        /\ menu.fname # "undefined"

====
